---- MODULE Spec2Model ----
(***************************************************************************)
(* A model of the portfolio chatbot's RAG pipeline                         *)
(* (src/backend/rag_system.py, src/backend/update_rag_database.py).        *)
(*                                                                         *)
(* Python values are modelled as follows.                                  *)
(*   dict        a function from key strings to values ("k" \in DOMAIN d   *)
(*               is Python's  'k' in d)                                    *)
(*   list        a sequence                                                *)
(*   None        the string None (never a URL or a title)                  *)
(*   text        a record [name, lo, hi, raw]: the tokens lo..hi-1         *)
(*               (0-based, half open, as a Python slice) of the token      *)
(*               stream of the text called name; raw is TRUE until         *)
(*               _clean_text has normalised it                             *)
(*   exception   an operator that can raise returns a record with a        *)
(*               field raised                                              *)
(*   float       distances and scores are counted in tenths               *)
(* Only WARNING and ERROR log records are tracked.                         *)
(***************************************************************************)
EXTENDS Integers, Sequences, FiniteSets, TLC

\* Largest max_results a caller passes to retrieve_context.
MaxResults == 2

None == "<None>"

EmptyDict == [k \in {} |-> None]

Min(a, b) == IF a < b THEN a ELSE b

Range(s) == {s[i] : i \in DOMAIN s}

\* {**a, **b}: the keys of both, b's value where both have the key.
Merge(a, b) ==
  [k \in DOMAIN a \cup DOMAIN b |-> IF k \in DOMAIN b THEN b[k] ELSE a[k]]

\* d.get(k, default)
Get(d, k, default) == IF k \in DOMAIN d THEN d[k] ELSE default

\* Python truthiness of an Optional[str]
Truthy(s) == s # None /\ s # ""

\* chunk_index of a document that is not a chunk (Optional[int] None).
NoIndex == -1

WARNING == "WARNING"
ERROR == "ERROR"

\* max_tokens of the resume chunking call.
ResumeMaxTokens == 500

(***************************************************************************)
(* The environment: the configuration file, the resume file, the web.      *)
(***************************************************************************)
LinkedinUrl == "https://linkedin.com/in/manas"
GithubUrl == "https://github.com/manas"
TwitterUrl == "https://x.com/manas"
Repo1Url == "https://github.com/manas/portfolio"

\* Token counts of the two versions of the resume text.
ResumeV1 == [name |-> "resume-v1", lo |-> 0, hi |-> 501, raw |-> TRUE]
ResumeV2 == [name |-> "resume-v2", lo |-> 0, hi |-> 300, raw |-> TRUE]
BlankText == [name |-> "", lo |-> 0, hi |-> 0, raw |-> TRUE]

\* What each extractor does with the resume file: "raise", or the text.
Raise == [name |-> "raise", lo |-> 0, hi |-> 0, raw |-> TRUE]

ResumeFiles ==
  { [exists |-> FALSE, ocr |-> Raise, pypdf |-> Raise],
    [exists |-> TRUE, ocr |-> Raise, pypdf |-> Raise],
    [exists |-> TRUE, ocr |-> Raise, pypdf |-> ResumeV1],
    [exists |-> TRUE, ocr |-> BlankText, pypdf |-> ResumeV1],
    [exists |-> TRUE, ocr |-> ResumeV2, pypdf |-> ResumeV1] }

\* The resume entry of resources.yaml: as documented, without its description,
\* without its path.
ResumeEntries ==
  { [path |-> "resume.pdf", type |-> "pdf", description |-> "Resume of Manas"],
    [path |-> "resume.pdf", type |-> "pdf"],
    [type |-> "pdf", description |-> "Resume of Manas"] }

LinkedinEntry ==
  <<"linkedin", [url |-> LinkedinUrl, type |-> "social", description |-> "LinkedIn"]>>
GithubEntry ==
  <<"github", [url |-> GithubUrl, type |-> "social"]>>
TwitterEntry ==
  <<"twitter", [url |-> TwitterUrl, type |-> "social"]>>

\* The profiles mapping, in file order, as (name, entry) pairs.
ProfileMaps ==
  { <<LinkedinEntry>>, <<GithubEntry>>, <<TwitterEntry, GithubEntry, LinkedinEntry>> }

\* The github_repos list.
RepoLists ==
  { << [url |-> Repo1Url, description |-> "Portfolio site"] >>,
    << [description |-> "no url"] >> }

\* The value of the 'resources' key.
ResourcesDicts ==
  { Merge(Merge(a, b), c) :
      a \in {EmptyDict} \cup {[resume |-> r] : r \in ResumeEntries},
      b \in {EmptyDict} \cup {[profiles |-> p] : p \in ProfileMaps},
      c \in {EmptyDict} \cup {[projects |-> [github_repos |-> l]] : l \in RepoLists} }

\* resources.yaml: unreadable, empty, or a mapping.
ConfigFiles ==
  { [kind |-> "unloadable", yaml |-> EmptyDict],
    [kind |-> "empty", yaml |-> EmptyDict],
    [kind |-> "dict", yaml |-> [version |-> "1"]] }
  \cup {[kind |-> "dict", yaml |-> [resources |-> r]] : r \in ResourcesDicts}

WebUrls == {GithubUrl, Repo1Url}

VARIABLES
  cfg,        \* resources.yaml
  resumeFile, \* the resume file
  down,       \* the URLs whose fetch fails at present
  collExists, \* the client has a collection named portfolio_resources
  store,      \* the collection's entries: id -> [document, metadata]
  prev,       \* the last process_all_resources(): the ids of its batch, and
              \* "clean", or "faulty" when its store write failed; "changed" once
              \* a source has changed or a rebuild was attempted since
  rebuilt,    \* "no", or a force-rebuild succeeded and process_all_resources()
              \* has not run since: "emptied" when it dropped documents, else "empty"
  last,       \* the last call and what it returned
  gen,        \* the identity of the collection created last (it is the live
              \* one while collExists)
  handle,     \* per RAGSystem object: the identity self.collection refers to
  pc,         \* per thread of control: where it stands in its code
  loc,        \* per thread of control: its local variables
  knowledge,  \* rag.py: the collection named portfolio_knowledge (whether it
              \* exists, and its entries: id -> [document, metadata])
  rag_instance, \* rag.py: the global _rag_instance, None (number 0) or the object
              \* (its number, and whether self.collection is the live collection)
  constructed,  \* rag.py: how many times RAGSystem.__init__ has run to its end
  service     \* ChatbotService: is_initialized, the providers and the default
              \* provider of its ai_service, the configuration of its
              \* resource_manager

vars == <<cfg, resumeFile, down, collExists, store, prev, rebuilt, last, gen, handle, pc, loc,
          knowledge, rag_instance, constructed, service>>

(***************************************************************************)
(* ResourceProcessor                                                       *)
(***************************************************************************)
Log(level, msg) == <<level, msg>>

\* _clean_text: whitespace collapsed, non-printable characters removed.
CleanText(text) == [text EXCEPT !.raw = FALSE]

\* text.strip() is the empty string
IsBlank(text) == text.hi = text.lo

\* Characters per token: the estimate the chunking code itself uses.
TokenChars == 4

\* len() of a text
CharLen(text) == TokenChars * (text.hi - text.lo)

\* The shortest content load_knowledge_from_file keeps is longer than this.
MinContentLength == 20

\* A plausible slip: only the full windows are kept.
ChunkTextFullWindows(text, max_tokens) ==
  LET n == text.hi - text.lo
      count == n \div max_tokens
  IN  [c \in 1..count |->
         [text EXCEPT !.lo = text.lo + (c - 1) * max_tokens,
                      !.hi = Min(text.lo + c * max_tokens, text.hi)]]

\* _chunk_text, token path: tokens[i:i + max_tokens] for i in
\* range(0, len(tokens), max_tokens), each window decoded.
ChunkText(text, max_tokens) ==
  LET n == text.hi - text.lo
      count == (n + max_tokens - 1) \div max_tokens
  IN  [c \in 1..count |->
         [text EXCEPT !.lo = text.lo + (c - 1) * max_tokens,
                      !.hi = Min(text.lo + c * max_tokens, text.hi)]]

\* hashlib.md5(content.encode()).hexdigest()[:8]: a digest of the content and
\* of nothing else, written here as a string that spells the content out.
Md5Hex8(content) ==
  content.name \o "@" \o ToString(content.lo) \o "-" \o ToString(content.hi)
    \o (IF content.raw THEN "r" ELSE "c")

\* A plausible slip: the id carries a running number, not the content's digest.
GenerateDocIdNumbered(source, content) ==
  source \o "_" \o ToString(Cardinality(DOMAIN store))

\* A plausible slip: the digest is taken of the source label.
GenerateDocIdOfLabel(source, content) ==
  source \o "_" \o Md5Hex8([content EXCEPT !.name = source])

\* _generate_doc_id
GenerateDocId(source, content) == source \o "_" \o Md5Hex8(content)

\* _extract_pdf_text_with_ocr: OCR first, PyPDF2 when OCR raises.
ExtractPdfTextWithOcr(file) ==
  IF file.ocr # Raise
    THEN [raised |-> FALSE, text |-> file.ocr, log |-> {}]
    ELSE IF file.pypdf # Raise
      THEN [raised |-> FALSE, text |-> file.pypdf,
            log |-> {Log(WARNING, "OCR extraction failed")}]
      ELSE [raised |-> TRUE, text |-> BlankText,
            log |-> {Log(WARNING, "OCR extraction failed"),
                     Log(ERROR, "Both OCR and PyPDF2 extraction failed")}]

\* process_pdf
ProcessPdf(file, metadata) ==
  LET ext == ExtractPdfTextWithOcr(file)
      chunks == ChunkText(CleanText(ext.text), ResumeMaxTokens)
  IN  IF ext.raised
        THEN [docs |-> <<>>, log |-> ext.log \cup {Log(ERROR, "Error processing PDF")}]
        ELSE IF IsBlank(ext.text)
          THEN [docs |-> <<>>,
                log |-> ext.log \cup {Log(WARNING, "No text extracted from PDF")}]
          ELSE [docs |->
                  [i \in 1..Len(chunks) |->
                     [id |-> GenerateDocId("resume_chunk_" \o ToString(i - 1), chunks[i]),
                      content |-> chunks[i],
                      source_type |-> "resume",
                      source_url |-> None,
                      title |-> Get(metadata, "description", "Resume"),
                      description |-> "Resume content - Chunk " \o ToString(i),
                      metadata |-> Merge(metadata,
                                         [chunk_index |-> i - 1, total_chunks |-> Len(chunks)]),
                      chunk_index |-> i - 1]],
                log |-> ext.log]

\* The text a web processor assembles from the page at url (the page's
\* fields stand as the url: one page, one text).
PageText(kind, url) == [name |-> kind \o " " \o url, lo |-> 0, hi |-> 40, raw |-> TRUE]

\* process_linkedin_profile: a fixed placeholder text, no fetch.
ProcessLinkedinProfile(url, metadata) ==
  LET content == PageText("LinkedIn Profile:", url)
  IN  [docs |-> << [id |-> GenerateDocId("linkedin", content),
                    content |-> CleanText(content),
                    source_type |-> "linkedin",
                    source_url |-> url,
                    title |-> "LinkedIn Profile",
                    description |-> Get(metadata, "description", "LinkedIn professional profile"),
                    metadata |-> metadata,
                    chunk_index |-> NoIndex] >>,
       log |-> {}]

\* process_github_profile
ProcessGithubProfile(url, metadata, unreachable) ==
  LET content == PageText("GitHub Profile:", url)
  IN  IF url \in unreachable
        THEN [docs |-> <<>>, log |-> {Log(ERROR, "Error processing GitHub profile")}]
        ELSE [docs |-> << [id |-> GenerateDocId("github_profile", content),
                           content |-> CleanText(content),
                           source_type |-> "github",
                           source_url |-> url,
                           title |-> "GitHub Profile",
                           description |-> Get(metadata, "description",
                                               "GitHub profile with repositories"),
                           metadata |-> metadata,
                           chunk_index |-> NoIndex] >>,
              log |-> {}]

\* str() of the <strong itemprop="name"> element of the repository page.
RepoNameTag(url) == "<strong>" \o url \o "</strong>"

\* A plausible slip: the repository document is typed after its id label.
ProcessGithubRepositoryTyped(url, metadata, unreachable) ==
  LET content == PageText("GitHub Repository:", url)
  IN  IF url \in unreachable
        THEN [docs |-> <<>>, log |-> {Log(ERROR, "Error processing GitHub repository")}]
        ELSE [docs |-> << [id |-> GenerateDocId("github_repo_" \o RepoNameTag(url), content),
                           content |-> CleanText(content),
                           source_type |-> "github_repo",
                           source_url |-> url,
                           title |-> "GitHub Project: " \o url,
                           description |-> Get(metadata, "description", "GitHub repository"),
                           metadata |-> metadata,
                           chunk_index |-> NoIndex] >>,
              log |-> {}]

\* process_github_repository
ProcessGithubRepository(url, metadata, unreachable) ==
  LET content == PageText("GitHub Repository:", url)
  IN  IF url \in unreachable
        THEN [docs |-> <<>>, log |-> {Log(ERROR, "Error processing GitHub repository")}]
        ELSE [docs |-> << [id |-> GenerateDocId("github_repo_" \o RepoNameTag(url), content),
                           content |-> CleanText(content),
                           source_type |-> "project",
                           source_url |-> url,
                           title |-> "GitHub Project: " \o url,
                           description |-> Get(metadata, "description", "GitHub repository"),
                           metadata |-> metadata,
                           chunk_index |-> NoIndex] >>,
              log |-> {}]

\* str() of the page's first <h1> element.
MediumTitleTag(url) == "<h1>" \o url \o "</h1>"

\* process_medium_article
ProcessMediumArticle(url, metadata, unreachable) ==
  LET content == PageText("Medium Article:", url)
  IN  IF url \in unreachable
        THEN [docs |-> <<>>, log |-> {Log(ERROR, "Error processing Medium article")}]
        ELSE [docs |-> << [id |-> GenerateDocId("medium_" \o MediumTitleTag(url), content),
                           content |-> CleanText(content),
                           source_type |-> "medium",
                           source_url |-> url,
                           title |-> "Medium Article: " \o url,
                           description |-> Get(metadata, "description", "Medium article"),
                           metadata |-> metadata,
                           chunk_index |-> NoIndex] >>,
              log |-> {}]

\* str() of the page's <title> element.
PaperTitleTag(url) == "<title>" \o url \o "</title>"

\* process_paper_link
ProcessPaperLink(url, metadata, unreachable) ==
  LET content == PageText("Research Paper:", url)
  IN  IF url \in unreachable
        THEN [docs |-> <<>>, log |-> {Log(ERROR, "Error processing paper link")}]
        ELSE [docs |-> << [id |-> GenerateDocId("paper_" \o PaperTitleTag(url), content),
                           content |-> CleanText(content),
                           source_type |-> "paper",
                           source_url |-> url,
                           title |-> "Research Paper: " \o url,
                           description |-> Get(metadata, "description", "Research paper"),
                           metadata |-> metadata,
                           chunk_index |-> NoIndex] >>,
              log |-> {}]

(***************************************************************************)
(* RAGSystem: ingestion                                                    *)
(***************************************************************************)
\* Largest index of the batch at which the encoder is made to fail.
MaxFailAt == 2

\* A plausible slip: a built-in configuration stands in for an unreadable or
\* incomplete file.
LoadResourcesConfigDefault(file) ==
  IF file.kind = "dict" /\ "resources" \in DOMAIN file.yaml
    THEN [config |-> file.yaml, log |-> {}]
    ELSE [config |-> [resources |-> [profiles |-> <<LinkedinEntry>>]],
          log |-> {Log(ERROR, "Error loading resources config")}]

\* load_resources_config: the parsed file, {} when reading or parsing fails.
LoadResourcesConfig(file) ==
  IF file.kind = "unloadable"
    THEN [config |-> EmptyDict, log |-> {Log(ERROR, "Error loading resources config")}]
    ELSE [config |-> file.yaml, log |-> {}]

NoDocs == [raised |-> FALSE, docs |-> <<>>, log |-> {}, invoked |-> <<>>]

\* process_all_resources, "Process resume"
ResumePart(resources, file) ==
  IF "resume" \notin DOMAIN resources
    THEN NoDocs
    ELSE LET resume_config == resources.resume
         IN  IF "path" \notin DOMAIN resume_config
               THEN [NoDocs EXCEPT !.raised = TRUE]        \* KeyError: 'path'
               ELSE IF ~file.exists
                 THEN NoDocs
                 ELSE LET r == ProcessPdf(file, resume_config)
                      IN  [raised |-> FALSE, docs |-> r.docs, log |-> r.log,
                           invoked |-> <<"process_pdf">>]

\* A plausible slip: a profile of any kind is processed as a GitHub profile.
ProfileStepAnyKind(profile_name, profile_config, unreachable) ==
  IF "url" \notin DOMAIN profile_config
    THEN NoDocs
    ELSE IF profile_name = "linkedin"
      THEN LET r == ProcessLinkedinProfile(profile_config.url, profile_config)
           IN  [raised |-> FALSE, docs |-> r.docs, log |-> r.log,
                invoked |-> <<"process_linkedin_profile">>]
      ELSE LET r == ProcessGithubProfile(profile_config.url, profile_config, unreachable)
           IN  [raised |-> FALSE, docs |-> r.docs, log |-> r.log,
                invoked |-> <<"process_github_profile">>]

\* One iteration of the loop over resources['profiles'].items()
ProfileStep(profile_name, profile_config, unreachable) ==
  IF "url" \notin DOMAIN profile_config
    THEN NoDocs
    ELSE IF profile_name = "linkedin"
      THEN LET r == ProcessLinkedinProfile(profile_config.url, profile_config)
           IN  [raised |-> FALSE, docs |-> r.docs, log |-> r.log,
                invoked |-> <<"process_linkedin_profile">>]
      ELSE IF profile_name = "github"
        THEN LET r == ProcessGithubProfile(profile_config.url, profile_config, unreachable)
             IN  [raised |-> FALSE, docs |-> r.docs, log |-> r.log,
                  invoked |-> <<"process_github_profile">>]
        ELSE NoDocs                                        \* unknown profile type

\* isinstance(item, dict): a YAML scalar s stands in the model as the record
\* [scalar |-> s], which no mapping of the configuration has as a key.
IsMapping(item) == "scalar" \notin DOMAIN item

\* One iteration of the loop over resources['projects']['github_repos']
RepoStep(repo_config, unreachable) ==
  IF ~(IsMapping(repo_config) /\ "url" \in DOMAIN repo_config)
    THEN NoDocs
    ELSE LET r == ProcessGithubRepository(repo_config.url, repo_config, unreachable)
         IN  [raised |-> FALSE, docs |-> r.docs, log |-> r.log,
              invoked |-> <<"process_github_repository">>]

Then(a, b) ==
  [raised |-> FALSE, docs |-> a.docs \o b.docs, log |-> a.log \cup b.log,
   invoked |-> a.invoked \o b.invoked]

RECURSIVE ProfilesLoop(_, _)
ProfilesLoop(items, unreachable) ==
  IF items = <<>>
    THEN NoDocs
    ELSE Then(ProfileStep(Head(items)[1], Head(items)[2], unreachable),
              ProfilesLoop(Tail(items), unreachable))

\* process_all_resources, "Process profiles"
ProfilesPart(resources, unreachable) ==
  IF "profiles" \in DOMAIN resources
    THEN ProfilesLoop(resources.profiles, unreachable)
    ELSE NoDocs

RECURSIVE ReposLoop(_, _)
ReposLoop(items, unreachable) ==
  IF items = <<>>
    THEN NoDocs
    ELSE Then(RepoStep(Head(items), unreachable), ReposLoop(Tail(items), unreachable))

\* process_all_resources, "Process project repositories"
ReposPart(resources, unreachable) ==
  IF "projects" \in DOMAIN resources /\ "github_repos" \in DOMAIN resources.projects
    THEN ReposLoop(resources.projects.github_repos, unreachable)
    ELSE NoDocs

\* The metadata record _store_documents builds for one document.
StoredMetadata(doc) ==
  Merge([source_type |-> doc.source_type,
         source_url |-> IF Truthy(doc.source_url) THEN doc.source_url ELSE "",
         title |-> doc.title,
         description |-> doc.description,
         created_at |-> "isoformat",
         chunk_index |-> IF doc.chunk_index = NoIndex THEN 0 ELSE doc.chunk_index],
        doc.metadata)

Entry(doc) == [document |-> doc.content, metadata |-> StoredMetadata(doc)]

\* A plausible slip: the batch replaces the collection's content.
UpsertReplacing(st, documents) ==
  LET ids == {documents[i].id : i \in DOMAIN documents}
      lastOf(id) == CHOOSE i \in DOMAIN documents :
                      /\ documents[i].id = id
                      /\ \A j \in DOMAIN documents : documents[j].id = id => j <= i
  IN  [id \in ids |-> Entry(documents[lastOf(id)])]

\* collection.upsert of one batch: an id already present is replaced, a new
\* one inserted; of two batch entries with one id the later one stays.
Upsert(st, documents) ==
  LET ids == {documents[i].id : i \in DOMAIN documents}
      lastOf(id) == CHOOSE i \in DOMAIN documents :
                      /\ documents[i].id = id
                      /\ \A j \in DOMAIN documents : documents[j].id = id => j <= i
  IN  [id \in DOMAIN st \cup ids |->
         IF id \in ids THEN Entry(documents[lastOf(id)]) ELSE st[id]]

\* A plausible slip: the upsert inside the loop, one document at a time.
StoreDocumentsOneByOne(documents, st, exists, encFailAt, upsertFails) ==
  LET failsAt == IF encFailAt \in DOMAIN documents THEN encFailAt ELSE Len(documents) + 1
      done == IF exists /\ ~upsertFails THEN SubSeq(documents, 1, failsAt - 1) ELSE <<>>
  IN  [raised |-> failsAt <= Len(documents) \/ ~exists \/ upsertFails,
       store |-> Upsert(st, done),
       log |-> IF failsAt <= Len(documents) \/ ~exists \/ upsertFails
                 THEN {Log(ERROR, "Error storing documents")} ELSE {}]

\* A plausible slip: the except clause without its raise.
StoreDocumentsSwallow(documents, st, exists, encFailAt, upsertFails) ==
  IF encFailAt \in DOMAIN documents \/ ~exists \/ upsertFails
    THEN [raised |-> FALSE, store |-> st, log |-> {Log(ERROR, "Error storing documents")}]
    ELSE [raised |-> FALSE, store |-> Upsert(st, documents), log |-> {}]

\* The list of ids names an id twice: the client refuses such a batch.
HasDuplicateIds(documents) ==
  \E i, j \in DOMAIN documents : i < j /\ documents[i].id = documents[j].id

\* _store_documents: every embedding first, then one upsert; an exception is
\* logged and raised again. The encoder fails at document encFailAt (if the
\* batch has one); the upsert fails when the collection is gone, when the
\* store fails and when the batch names an id twice.
StoreDocuments(documents, st, exists, encFailAt, upsertFails) ==
  IF encFailAt \in DOMAIN documents \/ ~exists \/ upsertFails \/ HasDuplicateIds(documents)
    THEN [raised |-> TRUE, store |-> st, log |-> {Log(ERROR, "Error storing documents")}]
    ELSE [raised |-> FALSE, store |-> Upsert(st, documents), log |-> {}]

\* The body of process_all_resources' try block; raised is an exception
\* leaving it.
ProcessAllBody(file, resume, unreachable, st, exists, encFailAt, upsertFails) ==
  LET loaded == LoadResourcesConfig(file)
      config == loaded.config
      stop(log) == [raised |-> FALSE, ret |-> FALSE, log |-> log,
                    invoked |-> <<>>, ids |-> <<>>, store |-> st]
  IN  IF config = EmptyDict \/ "resources" \notin DOMAIN config
        THEN stop(loaded.log \cup {Log(ERROR, "Invalid or empty resources configuration")})
        ELSE
          LET r == ResumePart(config.resources, resume)
              rest == Then(ProfilesPart(config.resources, unreachable),
                           ReposPart(config.resources, unreachable))
              all == Then(r, rest)
              w == StoreDocuments(all.docs, st, exists, encFailAt, upsertFails)
              ids == [i \in DOMAIN all.docs |-> all.docs[i].id]
          IN  IF r.raised
                THEN [stop(loaded.log) EXCEPT !.raised = TRUE]
                ELSE IF all.docs # <<>>
                  THEN [raised |-> w.raised, ret |-> ~w.raised,
                        log |-> loaded.log \cup all.log \cup w.log,
                        invoked |-> all.invoked, ids |-> ids, store |-> w.store]
                  ELSE [raised |-> FALSE, ret |-> FALSE,
                        log |-> loaded.log \cup all.log
                                  \cup {Log(WARNING, "No documents were processed")},
                        invoked |-> all.invoked, ids |-> ids, store |-> st]

\* process_all_resources: any exception of the body is logged and turned
\* into False.
ProcessAllResources(file, resume, unreachable, st, exists, encFailAt, upsertFails) ==
  LET b == ProcessAllBody(file, resume, unreachable, st, exists, encFailAt, upsertFails)
  IN  IF b.raised
        THEN [b EXCEPT !.raised = FALSE, !.ret = FALSE,
                       !.log = @ \cup {Log(ERROR, "Error processing resources")}]
        ELSE b

(***************************************************************************)
(* RAGSystem: retrieval                                                    *)
(***************************************************************************)
Queries == {"languages", "projects"}

\* Distance, in tenths, between the embeddings of a query and of a text.
Dist(q, c) ==
  LET d == CASE c.name = "resume-v1" -> 2
             [] c.name = "resume-v2" -> 3
             [] c.name = PageText("LinkedIn Profile:", LinkedinUrl).name -> 5
             [] c.name = PageText("GitHub Profile:", GithubUrl).name -> 5
             [] OTHER -> 7
  IN  IF q = "languages" THEN d + (IF c.lo > 0 THEN 1 ELSE 0) ELSE 10 - d

\* collection.query(n_results = k): the ways the store may answer, each a list
\* of the min(k, count) nearest entries by ascending distance.
QueryCollection(st, q, k) ==
  LET n == Min(k, Cardinality(DOMAIN st))
      d(id) == Dist(q, st[id].document)
  IN  { [i \in 1..n |-> [id |-> h[i], document |-> st[h[i]].document,
                         metadata |-> st[h[i]].metadata, distance |-> d(h[i])]] :
          h \in { g \in [1..n -> DOMAIN st] :
                    /\ \A i, j \in 1..n : i < j => g[i] # g[j] /\ d(g[i]) <= d(g[j])
                    /\ \A id \in DOMAIN st \ Range(g) : \A i \in 1..n : d(g[i]) <= d(id) } }

\* A plausible slip: the rank is the 0-based index.
ResultOfZeroBased(hit, i) ==
  [document |-> [id |-> hit.id,
                 content |-> hit.document,
                 source_type |-> hit.metadata.source_type,
                 source_url |-> Get(hit.metadata, "source_url", None),
                 title |-> hit.metadata.title,
                 description |-> hit.metadata.description,
                 chunk_index |-> Get(hit.metadata, "chunk_index", NoIndex)],
   score |-> 10 - hit.distance,
   rank |-> i - 1]

\* retrieve_context, the loop body for the hit at list position i (1-based
\* here, enumerate()'s index + 1).
ResultOf(hit, i) ==
  [document |-> [id |-> hit.id,
                 content |-> hit.document,
                 source_type |-> hit.metadata.source_type,
                 source_url |-> Get(hit.metadata, "source_url", None),
                 title |-> hit.metadata.title,
                 description |-> hit.metadata.description,
                 chunk_index |-> Get(hit.metadata, "chunk_index", NoIndex)],
   score |-> 10 - hit.distance,
   rank |-> i]

\* The keys the loop body reads with metadata[...]: a missing one is a KeyError.
RequiredKeys == {"source_type", "title", "description", "created_at"}

\* The loop body raises on the hit: a key it reads is missing (KeyError), or
\* datetime.fromisoformat rejects the created_at value (ValueError).
Unreadable(hit) ==
  \/ ~(RequiredKeys \subseteq DOMAIN hit.metadata)
  \/ hit.metadata.created_at # "isoformat"

\* A plausible slip: the except clause returns the results gathered so far.
RetrieveContextPartial(exists, k, fault, hits) ==
  IF fault # "none" \/ ~exists \/ k < 1
    THEN [raised |-> FALSE, results |-> <<>>]
    ELSE LET bad == {i \in DOMAIN hits : Unreadable(hits[i])}
             n == IF bad = {} THEN Len(hits)
                              ELSE (CHOOSE i \in bad : \A j \in bad : i <= j) - 1
         IN  [raised |-> FALSE, results |-> [i \in 1..n |-> ResultOf(hits[i], i)]]

\* The body of retrieve_context's try block. fault is "encoder" when the
\* encoder fails, "query" when the store fails; the store also fails when the
\* collection is gone and when n_results < 1.
RetrieveBody(exists, k, fault, hits) ==
  IF \/ fault # "none"
     \/ ~exists
     \/ k < 1
     \/ \E i \in DOMAIN hits : Unreadable(hits[i])
    THEN [raised |-> TRUE, results |-> <<>>]
    ELSE [raised |-> FALSE, results |-> [i \in DOMAIN hits |-> ResultOf(hits[i], i)]]

\* A plausible slip: no except clause.
RetrieveContextNoCatch(exists, k, fault, hits) == RetrieveBody(exists, k, fault, hits)

\* retrieve_context: any exception is logged and an empty list returned.
RetrieveContext(exists, k, fault, hits) ==
  LET b == RetrieveBody(exists, k, fault, hits)
  IN  IF b.raised THEN [raised |-> FALSE, results |-> <<>>] ELSE b

\* A plausible slip: the URL test is "is not None".
CitationIsNotNone(doc) ==
  IF doc.source_url # None
    THEN "- " \o doc.title \o ": " \o doc.source_url
    ELSE "- " \o doc.title

\* format_context_with_citations, the citation of one result
Citation(doc) ==
  IF Truthy(doc.source_url)
    THEN "- " \o doc.title \o ": " \o doc.source_url
    ELSE "- " \o doc.title

\* format_context_with_citations. The context is the list of its blocks
\* "[Source: <title>]\n<content>", which the code joins with blank lines.
FormatContextWithCitations(retrieval_results) ==
  [context |-> [i \in DOMAIN retrieval_results |->
                  [source |-> retrieval_results[i].document.title,
                   content |-> retrieval_results[i].document.content]],
   citations |-> [i \in DOMAIN retrieval_results |->
                    Citation(retrieval_results[i].document)]]

\* limit of the sample get_database_stats analyses.
SampleLimit == 100

\* get_database_stats
GetDatabaseStats(st, exists, storeFails) ==
  IF ~exists \/ storeFails
    THEN [error |-> "store error"]
    ELSE LET sample == CHOOSE s \in SUBSET DOMAIN st :
                         Cardinality(s) = Min(SampleLimit, Cardinality(DOMAIN st))
             types == {Get(st[id].metadata, "source_type", "unknown") : id \in sample}
         IN  [total_documents |-> Cardinality(DOMAIN st),
              source_types |->
                [t \in types |->
                   Cardinality({id \in sample :
                                  Get(st[id].metadata, "source_type", "unknown") = t})],
              database_path |-> "./vector_db"]

(***************************************************************************)
(* The state machine: one Orchestrator used by one caller at a time.       *)
(***************************************************************************)
EmptyStore == [id \in {} |-> None]

\* The threads of control that use the database at the same time: a
\* /rag/update request and two chats' retrieve_context in the server, and a
\* run of update_rag_database.py.
Threads == {"api", "chat", "chat2", "script"}

\* The RAGSystem objects: the server's, and the one the script constructs.
Objects == {"server", "script"}

ObjectOf(t) == IF t = "script" THEN "script" ELSE "server"

\* rag.py: _rag_instance = None, no object.
NoInstance == [oid |-> 0, attached |-> FALSE]

\* The locals of a call. A writer's: the batch and the number of its
\* documents embedded so far. A reader's: max_results and the list returned.
\* Of both: how the call ended, and where the script (for a writer: the other
\* writer) stood when the call reached the store. A caller's of
\* get_rag_system: the object it has in hand.
NoLocals ==
  [docs |-> <<>>, i |-> 0, k |-> 0, outcome |-> "none", results |-> <<>>, during |-> "none",
   rag |-> NoInstance]

Changed == [kind |-> "changed", ids |-> <<>>]

\* rag.py before any RAGSystem of it was constructed: the database has no
\* collection named portfolio_knowledge.
NoKnowledge == [exists |-> FALSE, docs |-> EmptyStore]

\* ChatbotService.__init__
NewService ==
  [is_initialized |-> FALSE, providers |-> {}, default_provider |-> None,
   resources_config |-> None]

\* RAGSystem.__init__ has run: the collection is open; nothing is stored yet.
Init ==
  /\ cfg \in ConfigFiles
  /\ resumeFile \in ResumeFiles
  /\ down \in SUBSET WebUrls
  /\ collExists = TRUE
  /\ store = EmptyStore
  /\ prev = Changed
  /\ rebuilt = "no"
  /\ last = [op |-> "init"]
  /\ gen = 1
  /\ handle = [o \in Objects |-> 1]
  /\ pc = [t \in Threads |-> "idle"]
  /\ loc = [t \in Threads |-> NoLocals]
  /\ knowledge = NoKnowledge
  /\ rag_instance = NoInstance
  /\ constructed = 0
  /\ service = NewService

\* The resume file is replaced, removed or damaged.
ChangeResume ==
  /\ resumeFile' \in ResumeFiles \ {resumeFile}
  /\ prev' = Changed
  /\ last' = [op |-> "env"]
  /\ UNCHANGED <<cfg, down, collExists, store, rebuilt, gen, handle, pc, loc, knowledge, rag_instance, constructed, service>>

\* A web page becomes unreachable, or reachable again.
ChangeWeb ==
  /\ \E url \in WebUrls :
       down' = IF url \in down THEN down \ {url} ELSE down \cup {url}
  /\ prev' = Changed
  /\ last' = [op |-> "env"]
  /\ UNCHANGED <<cfg, resumeFile, collExists, store, rebuilt, gen, handle, pc, loc, knowledge, rag_instance, constructed, service>>

\* RAGSystem.__init__ of a new process on the same database directory:
\* get_or_create_collection.
Construct ==
  /\ collExists' = TRUE
  /\ last' = [op |-> "construct"]
  /\ UNCHANGED <<cfg, resumeFile, down, store, prev, rebuilt, gen, handle, pc, loc, knowledge, rag_instance, constructed, service>>

\* A plausible slip: the collection is fetched again, not dropped.
ForceRebuildKeeps ==
  /\ \E deleteFails, createFails \in BOOLEAN :
       /\ collExists' = collExists
       /\ store' = store
       /\ rebuilt' = IF collExists /\ ~deleteFails /\ ~createFails
                       THEN (IF store = EmptyStore THEN "empty" ELSE "emptied")
                       ELSE rebuilt
       /\ last' = [op |-> "rebuild", before |-> store,
                   done |-> collExists /\ ~deleteFails /\ ~createFails,
                   log |-> IF collExists /\ ~deleteFails /\ ~createFails
                             THEN {} ELSE {Log(WARNING, "Could not clear database")}]
  /\ prev' = Changed
  /\ UNCHANGED <<cfg, resumeFile, down, gen, handle, pc, loc, knowledge, rag_instance, constructed, service>>

\* update_rag_database.py main, --force: delete_collection, then
\* create_collection and the handle's reassignment; an exception of either is
\* logged as a warning. delete_collection raises when the collection is gone.
ForceRebuild ==
  /\ \E deleteFails, createFails \in BOOLEAN :
       LET deleted == collExists /\ ~deleteFails
           created == deleted /\ ~createFails
       IN  /\ collExists' = IF deleted THEN created ELSE collExists
           /\ store' = IF deleted THEN EmptyStore ELSE store
           /\ rebuilt' = IF created
                             THEN (IF store = EmptyStore THEN "empty" ELSE "emptied")
                             ELSE IF deleted THEN "no" ELSE rebuilt
           /\ last' = [op |-> "rebuild", before |-> store, done |-> created,
                       log |-> IF created THEN {} ELSE {Log(WARNING, "Could not clear database")}]
  /\ prev' = Changed
  /\ UNCHANGED <<cfg, resumeFile, down, gen, handle, pc, loc, knowledge, rag_instance, constructed, service>>

\* process_all_resources()
ProcessAll ==
  /\ \E encFailAt \in 0..MaxFailAt, upsertFails \in BOOLEAN :
       /\ upsertFails => encFailAt = 0
       /\ \E r \in {ProcessAllResources(cfg, resumeFile, down, store, collExists,
                                        encFailAt, upsertFails)} :
            LET faulty == r.ids # <<>>
                            /\ (encFailAt \in DOMAIN r.ids \/ upsertFails \/ ~collExists)
            IN  /\ store' = r.store
                /\ rebuilt' = "no"
                /\ prev' = [kind |-> IF faulty THEN "faulty" ELSE "clean", ids |-> r.ids]
                /\ last' = [op |-> "process", ret |-> r.ret, raised |-> r.raised,
                            log |-> r.log, invoked |-> r.invoked, ids |-> r.ids,
                            before |-> store, failAt |-> encFailAt, faulty |-> faulty,
                            prev |-> prev]
  /\ UNCHANGED <<cfg, resumeFile, down, collExists, gen, handle, pc, loc, knowledge, rag_instance, constructed, service>>

\* retrieve_context(query, max_results)
Retrieve ==
  /\ \E q \in Queries, k \in 0..MaxResults :
       \E hits \in QueryCollection(store, q, k), fault \in {"none", "encoder", "query"} :
         \E r \in {RetrieveContext(collExists, k, fault, hits)} :
           last' = [op |-> "retrieve", query |-> q, k |-> k, fault |-> fault,
                    hits |-> hits, raised |-> r.raised, results |-> r.results]
  /\ UNCHANGED <<cfg, resumeFile, down, collExists, store, prev, rebuilt, gen, handle, pc, loc, knowledge, rag_instance, constructed, service>>

\* format_context_with_citations on the list retrieve_context returned
Format ==
  /\ last.op = "retrieve"
  /\ ~last.raised
  /\ LET f == FormatContextWithCitations(last.results)
     IN  last' = [op |-> "format", results |-> last.results,
                  context |-> f.context, citations |-> f.citations]
  /\ UNCHANGED <<cfg, resumeFile, down, collExists, store, prev, rebuilt, gen, handle, pc, loc, knowledge, rag_instance, constructed, service>>

\* get_database_stats()
Stats ==
  /\ \E storeFails \in BOOLEAN :
       last' = [op |-> "stats", fault |-> storeFails,
                stats |-> GetDatabaseStats(store, collExists, storeFails)]
  /\ UNCHANGED <<cfg, resumeFile, down, collExists, store, prev, rebuilt, gen, handle, pc, loc, knowledge, rag_instance, constructed, service>>

\* Ingestion, rebuild and statistics, over every configuration.
Next ==
  \/ ChangeResume
  \/ ChangeWeb
  \/ Construct
  \/ ForceRebuild
  \/ ProcessAll
  \/ Stats

Spec == Init /\ [][Next]_vars

\* Retrieval and citation, over the richest configuration with every page
\* reachable.
InitRetrieval ==
  /\ Init
  /\ cfg.kind = "dict" /\ "resources" \in DOMAIN cfg.yaml
  /\ DOMAIN cfg.yaml.resources = {"resume", "profiles", "projects"}
  /\ "path" \in DOMAIN cfg.yaml.resources.resume
  /\ Len(cfg.yaml.resources.profiles) > 1
  /\ down = {}

NextRetrieval ==
  \/ ChangeResume
  \/ Construct
  \/ ForceRebuild
  \/ ProcessAll
  \/ Retrieve
  \/ Format

SpecRetrieval == InitRetrieval /\ [][NextRetrieval]_vars

(***************************************************************************)
(* Properties                                                              *)
(***************************************************************************)
Ids(st) == DOMAIN st

Count(st) == Cardinality(DOMAIN st)

ConfigHasResources == cfg.kind = "dict" /\ "resources" \in DOMAIN cfg.yaml

\* C1: when process_all_resources() runs again with no change of a source and
\* no rebuild since the run before it, and that run did not fail in its store
\* write (the EmbeddingError / StoreError case, which leaves the store as it
\* was), the store has the same ids and the same count after the second run
\* as after the first, and the second run's documents have the ids the first
\* run's had: entries are replaced, none is added.
IdempotentReingestion ==
  (last.op = "process" /\ last.prev.kind = "clean") =>
    /\ Ids(store) = Ids(last.before)
    /\ Count(store) = Count(last.before)
    /\ last.ids = last.prev.ids

\* A second run over unchanged sources that stored a batch of three documents.
IdempotentReingestionWitness ==
  /\ last.op = "process" /\ last.prev.kind = "clean"
  /\ last.ret /\ Len(last.ids) >= 3
  /\ Range(last.ids) \subseteq Ids(last.before)

\* C2: process_all_resources() never raises, and returns True exactly when the
\* processors produced at least one document and the store write (every
\* embedding and the upsert) completed: every document of the batch is in the
\* store.
ProcessReturnsTrueIffStored ==
  last.op = "process" =>
    /\ ~last.raised
    /\ last.ret <=> (/\ last.ids # <<>>
                     /\ ~last.faulty
                     /\ Range(last.ids) \subseteq Ids(store))

\* Documents were produced and the store write failed: False.
ProcessReturnsTrueIffStoredWitness ==
  last.op = "process" /\ last.ids # <<>> /\ last.faulty /\ ~last.ret

\* C3: when an embedding or the upsert of the batch fails, the call returns
\* False and the store holds exactly the entries it held before the call.
NoPartialIndexUpdate ==
  (last.op = "process" /\ last.faulty) =>
    /\ ~last.ret
    /\ store = last.before

\* The encoder failed at the second document of a batch; the store held
\* entries before.
NoPartialIndexUpdateWitness ==
  /\ last.op = "process" /\ last.faulty
  /\ last.failAt = 2 /\ Len(last.ids) >= 2
  /\ last.before # EmptyStore

\* The documents of the configured resources that can be processed: those of
\* a resource whose entry cannot be read are left out.
HealthyDocs ==
  LET r == ResumePart(cfg.yaml.resources, resumeFile)
  IN  (IF r.raised THEN <<>> ELSE r.docs)
        \o ProfilesPart(cfg.yaml.resources, down).docs
        \o ReposPart(cfg.yaml.resources, down).docs

\* C4: a failure while handling one configured resource (extraction failure,
\* fetch failure, or an entry that cannot be read, such as a resume entry
\* without a path) skips only that resource: when the store write does not
\* fail, the documents of every other configured resource are in the store
\* after the call.
PerResourceFailureIsolation ==
  (last.op = "process" /\ ConfigHasResources /\ collExists /\ last.failAt = 0 /\ ~last.faulty) =>
    \A i \in DOMAIN HealthyDocs : HealthyDocs[i].id \in Ids(store)

\* C5: when the configured resume file does not exist, the call skips the
\* resume, logs a warning, and returns True exactly when another resource
\* yields a document and the store write succeeds.
MissingDocumentScenario ==
  (/\ last.op = "process" /\ ConfigHasResources
   /\ "resume" \in DOMAIN cfg.yaml.resources
   /\ "path" \in DOMAIN cfg.yaml.resources.resume
   /\ ~resumeFile.exists) =>
    /\ "process_pdf" \notin Range(last.invoked)
    /\ \E l \in last.log : l[1] = WARNING
    /\ last.ret <=> (last.ids # <<>> /\ ~last.faulty)

\* C6: when the configuration cannot be loaded, is empty or has no resources
\* key, process_all_resources() returns False without invoking a processor and
\* without a write to the store.
ConfigErrorIsFatalAndSideEffectFree ==
  (last.op = "process" /\ ~ConfigHasResources) =>
    /\ ~last.ret /\ ~last.raised
    /\ last.invoked = <<>> /\ last.ids = <<>>
    /\ store = last.before

\* A call under an unreadable configuration file.
ConfigErrorWitness ==
  last.op = "process" /\ cfg.kind = "unloadable" /\ ~last.ret

\* C7: retrieve_context never propagates an exception, and returns the empty
\* list whenever the encoder or the store fails or the collection is gone.
RetrievalFailuresAbsorbed ==
  last.op = "retrieve" =>
    /\ ~last.raised
    /\ (last.fault # "none" \/ ~collExists) => last.results = <<>>

\* The encoder failed on a query against a store that holds documents.
RetrievalFailuresAbsorbedWitness ==
  /\ last.op = "retrieve" /\ last.fault = "encoder"
  /\ last.k >= 1 /\ store # EmptyStore /\ last.results = <<>>

HasUrl(doc) == doc.source_url \notin {None, ""}

\* C9: format_context_with_citations gives one context block and one citation
\* per result, in the results' order; the citation is "- <title>: <url>" for a
\* document with a URL and "- <title>" for one without, in particular for a
\* resume chunk that retrieve_context returned.
CitationFormatting ==
  last.op = "format" =>
    /\ Len(last.citations) = Len(last.results)
    /\ Len(last.context) = Len(last.results)
    /\ \A i \in DOMAIN last.results :
         LET doc == last.results[i].document
         IN  /\ last.context[i] = [source |-> doc.title, content |-> doc.content]
             /\ HasUrl(doc) => last.citations[i] = "- " \o doc.title \o ": " \o doc.source_url
             /\ ~HasUrl(doc) => last.citations[i] = "- " \o doc.title
             /\ doc.source_type = "resume" => last.citations[i] = "- " \o doc.title

\* A formatted list holding a resume chunk and a document with a URL.
CitationFormattingWitness ==
  /\ last.op = "format"
  /\ \E i \in DOMAIN last.results : last.results[i].document.source_type = "resume"
  /\ \E i \in DOMAIN last.results : HasUrl(last.results[i].document)

\* C10: while a force-rebuild has succeeded and process_all_resources() has
\* not run since, a get_database_stats() that the store answers reports
\* total_documents = 0, whatever the collection held before the rebuild.
RebuildThenStatsZero ==
  (rebuilt # "no" /\ last.op = "stats" /\ ~last.fault) =>
    /\ "total_documents" \in DOMAIN last.stats
    /\ last.stats.total_documents = 0

\* Statistics after the rebuild of a collection that held documents.
RebuildThenStatsZeroWitness ==
  rebuilt = "emptied" /\ last.op = "stats" /\ ~last.fault

\* C13: the Orchestrator is ready after construction and after every
\* force-rebuild attempt: whether both steps succeeded or the drop or the
\* recreate step failed, its collection handle refers to an existing
\* collection.
ReadyAfterForceRebuild ==
  last.op \in {"init", "construct", "rebuild"} => collExists

\* The text the two tiers yield for the resume file under the claimed rule:
\* the structural extractor's when the first tier raises or returns blank text.
TwoTierText ==
  IF resumeFile.ocr = Raise \/ IsBlank(resumeFile.ocr)
    THEN resumeFile.pypdf
    ELSE resumeFile.ocr

\* C14: process_pdf uses the OCR extractor first and the structural extractor
\* whenever OCR raises or returns empty text; the resume chunks of the run,
\* which come first in its batch, are those of the structural extractor's
\* text in both of these cases, and those of the OCR text when OCR returned
\* non-empty text.
TwoTierExtraction ==
  (/\ last.op = "process" /\ ConfigHasResources
   /\ "resume" \in DOMAIN cfg.yaml.resources
   /\ "path" \in DOMAIN cfg.yaml.resources.resume
   /\ resumeFile.exists
   /\ TwoTierText # Raise /\ ~IsBlank(TwoTierText)) =>
    LET chunks == ChunkText(CleanText(TwoTierText), ResumeMaxTokens)
    IN  \A i \in DOMAIN chunks :
          /\ i \in DOMAIN last.ids
          /\ last.ids[i] = GenerateDocId("resume_chunk_" \o ToString(i - 1), chunks[i])

\* C16: no entry of the vector store has content shorter than the minimum
\* content length of 20 characters: shorter chunks are discarded.
MinimumContentLength ==
  \A id \in DOMAIN store : CharLen(store[id].document) >= MinContentLength

\* The id _generate_doc_id gives the stored entry e: its source label, "_",
\* the digest of the content its processor hashed.
LabelledDigest(e) ==
  LET m == e.metadata
      page == [e.document EXCEPT !.raw = TRUE]
  IN  CASE m.source_type = "resume" ->
             "resume_chunk_" \o ToString(m.chunk_index) \o "_" \o Md5Hex8(e.document)
        [] m.source_type = "linkedin" -> "linkedin_" \o Md5Hex8(page)
        [] m.source_type = "github" -> "github_profile_" \o Md5Hex8(page)
        [] OTHER -> "github_repo_" \o RepoNameTag(m.source_url) \o "_" \o Md5Hex8(page)

\* C17: every id is "<source label>_<digest of the content>" and depends on
\* nothing else: a process_all_resources() that runs again over unchanged
\* sources produces the ids of the run before it, whatever happened to the
\* store in between (also after a run whose store write failed).
IdGenerationIsPure ==
  last.op = "process" =>
    /\ last.prev.kind # "changed" => last.ids = last.prev.ids
    /\ last.ret => \A id \in Range(last.ids) : id = LabelledDigest(store[id])

\* A run that stores, over unchanged sources, the batch a failed store write
\* left unwritten.
IdGenerationIsPureWitness ==
  /\ last.op = "process" /\ last.prev.kind = "faulty"
  /\ last.ret /\ Len(last.ids) >= 2
  /\ store # last.before

\* C20: no step other than a force-rebuild removes an id from the store; a
\* process_all_resources() replaces or inserts the ids of its batch and leaves
\* every other entry as it was, so the chunk ids of a previous version of a
\* source stay next to the new ones.
NoPruningOnUpsert ==
  [][last'.op # "rebuild" =>
       \A id \in DOMAIN store :
         /\ id \in DOMAIN store'
         /\ (last'.op # "process" \/ id \notin Range(last'.ids)) => store'[id] = store[id]]_vars

\* After a run the store holds chunks of both versions of the resume.
NoPruningOnUpsertWitness ==
  /\ last.op = "process" /\ last.ret
  /\ \E a, b \in DOMAIN store :
       /\ store[a].document.name = ResumeV1.name
       /\ store[b].document.name = ResumeV2.name
       /\ b \in Range(last.ids) /\ a \notin Range(last.ids)

(***************************************************************************)
(* _chunk_text called on its own                                           *)
(***************************************************************************)
\* Longest text, in tokens, given to _chunk_text.
MaxTextLen == 12

\* Largest max_tokens given to _chunk_text.
MaxChunkTokens == 9

\* A cleaned text of n tokens.
TokenText(n) == [name |-> "text", lo |-> 0, hi |-> n, raw |-> FALSE]

\* _chunk_text(text, max_tokens) with the tokenizer available
CallChunkText ==
  /\ \E n \in 0..MaxTextLen, max_tokens \in 1..MaxChunkTokens :
       \E chunks \in {ChunkText(TokenText(n), max_tokens)} :
         last' = [op |-> "chunk", text |-> TokenText(n), max_tokens |-> max_tokens,
                  chunks |-> chunks, first |-> chunks]
  /\ UNCHANGED <<cfg, resumeFile, down, collExists, store, prev, rebuilt, gen, handle, pc, loc, knowledge, rag_instance, constructed, service>>

\* The same call once more.
CallChunkTextAgain ==
  /\ last.op = "chunk"
  /\ last' = [last EXCEPT !.op = "chunk-again",
                          !.chunks = ChunkText(last.text, last.max_tokens)]
  /\ UNCHANGED <<cfg, resumeFile, down, collExists, store, prev, rebuilt, gen, handle, pc, loc, knowledge, rag_instance, constructed, service>>

InitChunking ==
  /\ Init
  /\ cfg.kind = "empty" /\ ~resumeFile.exists /\ down = {}

NextChunking ==
  \/ CallChunkText
  \/ CallChunkTextAgain

SpecChunking == InitChunking /\ [][NextChunking]_vars

\* C15: for a text of tokens T and max_tokens = N >= 1 the chunks are
\* consecutive windows of T that do not overlap and together are exactly T;
\* every window but the last has exactly N tokens, the last has 1..N, none
\* has more than N; a second call with the same input returns the same list.
TokenChunking ==
  last.op \in {"chunk", "chunk-again"} =>
    LET T == last.text
        N == last.max_tokens
        chunks == last.chunks
        size(c) == chunks[c].hi - chunks[c].lo
    IN  /\ T.hi = T.lo <=> chunks = <<>>
        /\ chunks # <<>> => chunks[1].lo = T.lo /\ chunks[Len(chunks)].hi = T.hi
        /\ \A c \in DOMAIN chunks :
             /\ chunks[c].name = T.name
             /\ size(c) >= 1 /\ size(c) <= N
             /\ c < Len(chunks) => size(c) = N /\ chunks[c + 1].lo = chunks[c].hi
        /\ chunks = last.first

\* Seven tokens in windows of three: two full windows and a last one of one
\* token, returned again by a second call.
TokenChunkingWitness ==
  /\ last.op = "chunk-again"
  /\ last.text.hi = 7 /\ last.max_tokens = 3
  /\ Len(last.chunks) = 3 /\ last.chunks[3].hi - last.chunks[3].lo = 1

(***************************************************************************)
(* The ResourceProcessor methods called one by one                         *)
(***************************************************************************)
MediumUrl == "https://medium.com/@manas/rag"
PaperUrl == "https://arxiv.org/abs/0000.00000"

\* The metadata argument: a configuration entry, also one that has a
\* source_type key of its own.
Metadatas ==
  { [type |-> "entry"],
    [type |-> "entry", description |-> "From resources.yaml"],
    [type |-> "entry", source_type |-> "blog"] }

\* What a processor call leaves to look at: its documents, and the metadata
\* record _store_documents would write for each.
Produced(method, metadata, r) ==
  [op |-> "processor", method |-> method, metadata |-> metadata, docs |-> r.docs,
   stored |-> [i \in DOMAIN r.docs |-> StoredMetadata(r.docs[i])], log |-> r.log]

CallProcessPdf ==
  /\ \E metadata \in Metadatas :
       last' = Produced("process_pdf", metadata, ProcessPdf(resumeFile, metadata))
  /\ UNCHANGED <<cfg, resumeFile, down, collExists, store, prev, rebuilt, gen, handle, pc, loc, knowledge, rag_instance, constructed, service>>

CallProcessLinkedinProfile ==
  /\ \E metadata \in Metadatas :
       last' = Produced("process_linkedin_profile", metadata,
                        ProcessLinkedinProfile(LinkedinUrl, metadata))
  /\ UNCHANGED <<cfg, resumeFile, down, collExists, store, prev, rebuilt, gen, handle, pc, loc, knowledge, rag_instance, constructed, service>>

CallProcessGithubProfile ==
  /\ \E metadata \in Metadatas :
       last' = Produced("process_github_profile", metadata,
                        ProcessGithubProfile(GithubUrl, metadata, down))
  /\ UNCHANGED <<cfg, resumeFile, down, collExists, store, prev, rebuilt, gen, handle, pc, loc, knowledge, rag_instance, constructed, service>>

CallProcessGithubRepository ==
  /\ \E metadata \in Metadatas :
       last' = Produced("process_github_repository", metadata,
                        ProcessGithubRepository(Repo1Url, metadata, down))
  /\ UNCHANGED <<cfg, resumeFile, down, collExists, store, prev, rebuilt, gen, handle, pc, loc, knowledge, rag_instance, constructed, service>>

CallProcessMediumArticle ==
  /\ \E metadata \in Metadatas, unreachable \in SUBSET {MediumUrl} :
       last' = Produced("process_medium_article", metadata,
                        ProcessMediumArticle(MediumUrl, metadata, unreachable))
  /\ UNCHANGED <<cfg, resumeFile, down, collExists, store, prev, rebuilt, gen, handle, pc, loc, knowledge, rag_instance, constructed, service>>

CallProcessPaperLink ==
  /\ \E metadata \in Metadatas, unreachable \in SUBSET {PaperUrl} :
       last' = Produced("process_paper_link", metadata,
                        ProcessPaperLink(PaperUrl, metadata, unreachable))
  /\ UNCHANGED <<cfg, resumeFile, down, collExists, store, prev, rebuilt, gen, handle, pc, loc, knowledge, rag_instance, constructed, service>>

InitProcessors ==
  /\ Init
  /\ cfg.kind = "empty"

NextProcessors ==
  \/ CallProcessGithubProfile
  \/ CallProcessGithubRepository
  \/ CallProcessLinkedinProfile
  \/ CallProcessPdf
  \/ CallProcessMediumArticle
  \/ CallProcessPaperLink

SpecProcessors == InitProcessors /\ [][NextProcessors]_vars

ResumeEntry == [path |-> "resume.pdf", type |-> "pdf", description |-> "Resume of Manas"]

\* Profiles of an unknown kind and profiles without a url, next to good ones.
OddProfileMaps ==
  { <<TwitterEntry, LinkedinEntry>>,
    << <<"linkedin", [type |-> "social"]>>, GithubEntry >>,
    << <<"github", [type |-> "social"]>>, TwitterEntry >> }

\* Project groups other than github_repos, and github_repos items that are
\* not a mapping with a url.
OddProjects ==
  { [gitlab_repos |-> << [url |-> Repo1Url] >>],
    [github_repos |-> << [scalar |-> Repo1Url], [url |-> Repo1Url] >>],
    [github_repos |-> << [description |-> "no url"] >>,
     demos |-> << [url |-> GithubUrl] >>] }

OddConfigFiles ==
  { [kind |-> "dict", yaml |-> [resources |-> Merge(Merge(a, b), c)]] :
      a \in {EmptyDict, [resume |-> ResumeEntry]},
      b \in {EmptyDict} \cup {[profiles |-> p] : p \in OddProfileMaps},
      c \in {EmptyDict} \cup {[projects |-> g] : g \in OddProjects} }

InitEntries ==
  /\ cfg \in OddConfigFiles
  /\ resumeFile \in {f \in ResumeFiles : f.ocr # Raise}
  /\ down \in SUBSET WebUrls
  /\ collExists = TRUE
  /\ store = EmptyStore
  /\ prev = Changed
  /\ rebuilt = "no"
  /\ last = [op |-> "init"]
  /\ gen = 1
  /\ handle = [o \in Objects |-> 1]
  /\ pc = [t \in Threads |-> "idle"]
  /\ loc = [t \in Threads |-> NoLocals]
  /\ knowledge = NoKnowledge
  /\ rag_instance = NoInstance
  /\ constructed = 0
  /\ service = NewService

NextEntries ==
  \/ ChangeWeb
  \/ ProcessAll

SpecEntries == InitEntries /\ [][NextEntries]_vars

\* The entries of a resources mapping that process_all_resources() knows:
\* linkedin and github profiles with a url, github_repos items that are
\* mappings with a url.
RECURSIVE KnownProfiles(_)
KnownProfiles(items) ==
  IF items = <<>>
    THEN <<>>
    ELSE (IF Head(items)[1] \in {"linkedin", "github"} /\ "url" \in DOMAIN Head(items)[2]
            THEN <<Head(items)>> ELSE <<>>) \o KnownProfiles(Tail(items))

RECURSIVE KnownRepos(_)
KnownRepos(items) ==
  IF items = <<>>
    THEN <<>>
    ELSE (IF "scalar" \notin DOMAIN Head(items) /\ "url" \in DOMAIN Head(items)
            THEN <<Head(items)>> ELSE <<>>) \o KnownRepos(Tail(items))

KnownEntries(resources) ==
  [k \in DOMAIN resources |->
     CASE k = "profiles" -> KnownProfiles(resources.profiles)
       [] k = "projects" ->
            [g \in DOMAIN resources.projects \cap {"github_repos"} |->
               KnownRepos(resources.projects.github_repos)]
       [] OTHER -> resources[k]]

MaxCollections == 2

\* The query of the chat.
ChatQuery == "languages"

Writers == {"api", "script"}

Other(t) == IF t = "api" THEN "script" ELSE "api"

\* self.collection of the object refers to the live collection.
Valid(o) == collExists /\ handle[o] = gen

\* process_all_resources up to its store write: the batch, empty where the
\* call returns False before it.
CollectDocuments(file, resume, unreachable) ==
  LET config == LoadResourcesConfig(file).config
  IN  IF config = EmptyDict \/ "resources" \notin DOMAIN config
        THEN <<>>
        ELSE LET r == ResumePart(config.resources, resume)
             IN  IF r.raised
                   THEN <<>>
                   ELSE Then(r, Then(ProfilesPart(config.resources, unreachable),
                                     ReposPart(config.resources, unreachable))).docs

\* The resume files that yield a text.
TextResumeFiles ==
  {f \in ResumeFiles : f.exists /\ ~ExtractPdfTextWithOcr(f).raised
                         /\ ~IsBlank(ExtractPdfTextWithOcr(f).text)}

\* The resume is replaced by another version.
ReviseResume ==
  /\ resumeFile' \in TextResumeFiles \ {resumeFile}
  /\ UNCHANGED <<cfg, down, collExists, store, prev, rebuilt, last, gen, handle, pc, loc, knowledge, rag_instance, constructed, service>>

\* The server starts again: RAGSystem.__init__, get_or_create_collection.
ServerRestart ==
  /\ pc["api"] = "idle" /\ pc["chat"] = "idle"
  /\ collExists \/ gen < MaxCollections
  /\ gen' = IF collExists THEN gen ELSE gen + 1
  /\ collExists' = TRUE
  /\ handle' = [handle EXCEPT !["server"] = gen']
  /\ UNCHANGED <<cfg, resumeFile, down, store, prev, rebuilt, last, pc, loc, knowledge, rag_instance, constructed, service>>

\* update_rag_database.py main up to its test of --force: RAGSystem().
ScriptStart ==
  /\ pc["script"] = "idle"
  /\ collExists \/ gen < MaxCollections
  /\ gen' = IF collExists THEN gen ELSE gen + 1
  /\ collExists' = TRUE
  /\ handle' = [handle EXCEPT !["script"] = gen']
  /\ \E force \in BOOLEAN :
       pc' = [pc EXCEPT !["script"] = IF force THEN "delete" ELSE "process"]
  /\ loc' = [loc EXCEPT !["script"] = NoLocals]
  /\ UNCHANGED <<cfg, resumeFile, down, store, prev, rebuilt, last, knowledge, rag_instance, constructed, service>>

\* A plausible slip: the collection is emptied entry by entry before it is
\* dropped.
ScriptDeleteEntryWise ==
  /\ pc["script"] = "delete"
  /\ IF store # EmptyStore
       THEN /\ \E id \in DOMAIN store : store' = [x \in DOMAIN store \ {id} |-> store[x]]
            /\ UNCHANGED <<collExists, pc>>
       ELSE /\ collExists' = FALSE
            /\ pc' = [pc EXCEPT !["script"] = "create"]
            /\ UNCHANGED store
  /\ UNCHANGED <<cfg, resumeFile, down, prev, rebuilt, last, gen, handle, loc, knowledge, rag_instance, constructed, service>>

\* update_rag_database.py main, --force: delete_collection. An exception
\* leaves the try block: the warning is logged and the processing follows.
ScriptDelete ==
  /\ pc["script"] = "delete"
  /\ \E deleteFails \in BOOLEAN :
       IF collExists /\ ~deleteFails
         THEN /\ collExists' = FALSE
              /\ store' = EmptyStore
              /\ pc' = [pc EXCEPT !["script"] = "create"]
         ELSE /\ pc' = [pc EXCEPT !["script"] = "process"]
              /\ UNCHANGED <<collExists, store>>
  /\ UNCHANGED <<cfg, resumeFile, down, prev, rebuilt, last, gen, handle, loc, knowledge, rag_instance, constructed, service>>

\* update_rag_database.py main, --force: create_collection and the assignment
\* of rag_system.collection. It raises when the store fails and when a
\* collection of the name exists again.
ScriptCreate ==
  /\ pc["script"] = "create"
  /\ \E createFails \in BOOLEAN :
       IF ~collExists /\ ~createFails /\ gen < MaxCollections
         THEN /\ collExists' = TRUE
              /\ gen' = gen + 1
              /\ handle' = [handle EXCEPT !["script"] = gen + 1]
         ELSE UNCHANGED <<collExists, gen, handle>>
  /\ pc' = [pc EXCEPT !["script"] = "process"]
  /\ UNCHANGED <<cfg, resumeFile, down, store, prev, rebuilt, last, loc, knowledge, rag_instance, constructed, service>>

\* process_all_resources up to its call of _store_documents
WriterCollect(t) ==
  /\ pc[t] = IF t = "script" THEN "process" ELSE "idle"
  /\ \E docs \in {CollectDocuments(cfg, resumeFile, down)} :
       /\ pc' = [pc EXCEPT ![t] = IF docs = <<>> THEN "idle" ELSE "embed"]
       /\ loc' = [loc EXCEPT ![t] =
                    [NoLocals EXCEPT !.docs = docs,
                                     !.outcome = IF docs = <<>> THEN "false" ELSE "none"]]
  /\ UNCHANGED <<cfg, resumeFile, down, collExists, store, prev, rebuilt, last, gen, handle, knowledge, rag_instance, constructed, service>>

\* A plausible slip: each document is written as soon as it is embedded.
WriterEmbedAndUpsert(t) ==
  /\ pc[t] = "embed" /\ loc[t].i < Len(loc[t].docs)
  /\ \E encoderFails \in BOOLEAN :
       IF encoderFails
         THEN /\ pc' = [pc EXCEPT ![t] = "idle"]
              /\ loc' = [loc EXCEPT ![t] = [NoLocals EXCEPT !.outcome = "false"]]
              /\ UNCHANGED store
         ELSE /\ pc' = pc
              /\ loc' = [loc EXCEPT ![t].i = @ + 1]
              /\ store' = IF Valid(ObjectOf(t))
                            THEN Upsert(store, <<loc[t].docs[loc[t].i + 1]>>)
                            ELSE store
  /\ UNCHANGED <<cfg, resumeFile, down, collExists, prev, rebuilt, last, gen, handle, knowledge, rag_instance, constructed, service>>

\* _store_documents, one iteration of its loop: the embedding of the next
\* document. An exception ends the call, which returns False.
WriterEmbed(t) ==
  /\ pc[t] = "embed" /\ loc[t].i < Len(loc[t].docs)
  /\ \E encoderFails \in BOOLEAN :
       IF encoderFails
         THEN /\ pc' = [pc EXCEPT ![t] = "idle"]
              /\ loc' = [loc EXCEPT ![t] = [NoLocals EXCEPT !.outcome = "false"]]
         ELSE /\ pc' = pc
              /\ loc' = [loc EXCEPT ![t].i = @ + 1]
  /\ UNCHANGED <<cfg, resumeFile, down, collExists, store, prev, rebuilt, last, gen, handle, knowledge, rag_instance, constructed, service>>

\* _store_documents, collection.upsert of the batch, and the return of
\* process_all_resources: True, or False when the upsert raised.
WriterUpsert(t) ==
  /\ pc[t] = "embed" /\ loc[t].i = Len(loc[t].docs)
  /\ \E upsertFails \in BOOLEAN :
       LET ok == Valid(ObjectOf(t)) /\ ~upsertFails
       IN  /\ store' = IF ok THEN Upsert(store, loc[t].docs) ELSE store
           /\ loc' = [loc EXCEPT ![t] = [NoLocals EXCEPT !.outcome = IF ok THEN "true" ELSE "false",
                                                         !.during = pc[Other(t)]]]
  /\ pc' = [pc EXCEPT ![t] = "idle"]
  /\ UNCHANGED <<cfg, resumeFile, down, collExists, prev, rebuilt, last, gen, handle, knowledge, rag_instance, constructed, service>>

\* retrieve_context, the embedding of the query. An exception ends the call,
\* which returns the empty list.
ReaderEncode ==
  /\ pc["chat"] = "idle"
  /\ \E encoderFails \in BOOLEAN :
       IF encoderFails
         THEN /\ pc' = pc
              /\ loc' = [loc EXCEPT !["chat"] = [NoLocals EXCEPT !.outcome = "error"]]
         ELSE /\ pc' = [pc EXCEPT !["chat"] = "query"]
              /\ loc' = [loc EXCEPT !["chat"] = NoLocals]
  /\ UNCHANGED <<cfg, resumeFile, down, collExists, store, prev, rebuilt, last, gen, handle, knowledge, rag_instance, constructed, service>>

\* retrieve_context, collection.query and the return: the results, or the
\* empty list when the query raised because the collection of the handle is
\* gone.
ReaderQuery ==
  /\ pc["chat"] = "query"
  /\ \E k \in 1..MaxResults :
       IF Valid("server")
         THEN \E hits \in QueryCollection(store, ChatQuery, k) :
                loc' = [loc EXCEPT !["chat"] =
                          [NoLocals EXCEPT !.k = k,
                                           !.outcome = "results",
                                           !.results = RetrieveContext(TRUE, k, "none", hits).results,
                                           !.during = pc["script"]]]
         ELSE loc' = [loc EXCEPT !["chat"] =
                        [NoLocals EXCEPT !.k = k,
                                         !.outcome = "unavailable",
                                         !.results = RetrieveContext(FALSE, k, "none", <<>>).results,
                                         !.during = pc["script"]]]
  /\ pc' = [pc EXCEPT !["chat"] = "idle"]
  /\ UNCHANGED <<cfg, resumeFile, down, collExists, store, prev, rebuilt, last, gen, handle, knowledge, rag_instance, constructed, service>>

\* A resume and a LinkedIn profile are configured; the resume has a text.
InitConcurrent ==
  /\ Init
  /\ cfg = [kind |-> "dict",
            yaml |-> [resources |-> [resume |-> ResumeEntry, profiles |-> <<LinkedinEntry>>]]]
  /\ resumeFile \in TextResumeFiles
  /\ down = {}

\* A run of update_rag_database.py, with or without --force, next to the
\* chats of the server.
NextRebuildRace ==
  \/ ReviseResume
  \/ ServerRestart
  \/ ScriptStart
  \/ ScriptDelete
  \/ ScriptCreate
  \/ WriterCollect("script")
  \/ WriterEmbed("script")
  \/ WriterUpsert("script")
  \/ ReaderEncode
  \/ ReaderQuery

SpecRebuildRace == InitConcurrent /\ [][NextRebuildRace]_vars

\* A run of update_rag_database.py next to a /rag/update request of the
\* server.
NextWriters ==
  \/ ReviseResume
  \/ ServerRestart
  \/ ScriptStart
  \/ ScriptDelete
  \/ ScriptCreate
  \/ \E t \in Writers : WriterCollect(t)
  \/ \E t \in Writers : WriterEmbed(t)
  \/ \E t \in Writers : WriterUpsert(t)

SpecWriters == InitConcurrent /\ [][NextWriters]_vars

\* The batches process_all_resources() can form from the configured sources.
KnownBatches == {CollectDocuments(cfg, f, {}) : f \in TextResumeFiles}

\* Every entry of the collection content st belongs to a batch of which st
\* has every entry.
Whole(st) ==
  \A id \in DOMAIN st :
    \E B \in KnownBatches :
      /\ \E i \in DOMAIN B : B[i].id = id /\ st[id] = Entry(B[i])
      /\ \A j \in DOMAIN B : B[j].id \in DOMAIN st

\* The contents of a collection that was created empty and has received
\* whole batches only.
WholeCollections ==
  LET one == {Upsert(EmptyStore, B) : B \in KnownBatches}
  IN  {EmptyStore} \cup one \cup {Upsert(st, B) : st \in one, B \in KnownBatches}

Readers == {"chat", "chat2"}

OtherReader(t) == IF t = "chat" THEN "chat2" ELSE "chat"

\* No retrieve_context call is under way and no caller holds a returned list.
Quiescent == \A t \in Readers : pc[t] = "idle" /\ loc[t] = NoLocals

\* collection.query on a collection nobody writes: the index answers one
\* query on one content the same way each time it is asked.
IndexAnswer(st, q, k) == CHOOSE hits \in QueryCollection(st, q, k) : TRUE

\* A plausible slip: the hits are gathered in a list kept on the object, which
\* the calls under way share.
RetrieveQueryShared(t) ==
  /\ pc[t] = "query"
  /\ \E k \in 1..MaxResults :
       LET mine == IF Valid("server")
                     THEN RetrieveContext(TRUE, k, "none", IndexAnswer(store, ChatQuery, k)).results
                     ELSE <<>>
           held == IF pc[OtherReader(t)] = "done" THEN loc[OtherReader(t)].results ELSE <<>>
       IN  loc' = [loc EXCEPT ![t] =
                     [NoLocals EXCEPT !.k = k,
                                      !.outcome = IF Valid("server") THEN "results" ELSE "unavailable",
                                      !.results = held \o mine,
                                      !.during = pc[OtherReader(t)]]]
  /\ pc' = [pc EXCEPT ![t] = "done"]
  /\ UNCHANGED <<cfg, resumeFile, down, collExists, store, prev, rebuilt, last, gen, handle, knowledge, rag_instance, constructed, service>>

\* retrieve_context, the embedding of the query. An exception ends the call,
\* which returns the empty list.
RetrieveEncode(t) ==
  /\ pc[t] = "idle" /\ loc[t] = NoLocals
  /\ \E encoderFails \in BOOLEAN :
       IF encoderFails
         THEN /\ pc' = [pc EXCEPT ![t] = "done"]
              /\ loc' = [loc EXCEPT ![t] = [NoLocals EXCEPT !.outcome = "error"]]
         ELSE /\ pc' = [pc EXCEPT ![t] = "query"]
              /\ loc' = loc
  /\ UNCHANGED <<cfg, resumeFile, down, collExists, store, prev, rebuilt, last, gen, handle, knowledge, rag_instance, constructed, service>>

\* retrieve_context, collection.query, the loop over the hits and the return:
\* the results, or the empty list when the query raised because the
\* collection is gone.
RetrieveQuery(t) ==
  /\ pc[t] = "query"
  /\ \E k \in 1..MaxResults :
       LET r == IF Valid("server")
                  THEN RetrieveContext(TRUE, k, "none", IndexAnswer(store, ChatQuery, k))
                  ELSE RetrieveContext(FALSE, k, "none", <<>>)
       IN  loc' = [loc EXCEPT ![t] =
                     [NoLocals EXCEPT !.k = k,
                                      !.outcome = IF Valid("server") THEN "results" ELSE "unavailable",
                                      !.results = r.results,
                                      !.during = pc[OtherReader(t)]]]
  /\ pc' = [pc EXCEPT ![t] = "done"]
  /\ UNCHANGED <<cfg, resumeFile, down, collExists, store, prev, rebuilt, last, gen, handle, knowledge, rag_instance, constructed, service>>

\* The caller is done with the list it was given.
RetrieveReturn(t) ==
  /\ pc[t] = "done"
  /\ pc' = [pc EXCEPT ![t] = "idle"]
  /\ loc' = [loc EXCEPT ![t] = NoLocals]
  /\ UNCHANGED <<cfg, resumeFile, down, collExists, store, prev, rebuilt, last, gen, handle, knowledge, rag_instance, constructed, service>>

\* get_database_stats, format_context_with_citations and retrieve_context as
\* whole calls of a single caller, and the retrieve_context calls of two chats
\* step by step; the writes happen while no read is under way.
NextReaders ==
  \/ Quiescent /\ ReviseResume
  \/ Quiescent /\ ProcessAll
  \/ Quiescent /\ ForceRebuild
  \/ Quiescent /\ Construct
  \/ Quiescent /\ Retrieve
  \/ Quiescent /\ Format
  \/ Quiescent /\ Stats
  \/ \E t \in Readers : RetrieveEncode(t)
  \/ \E t \in Readers : RetrieveQuery(t)
  \/ \E t \in Readers : RetrieveReturn(t)

SpecReaders == InitConcurrent /\ [][NextReaders]_vars

\* A step of a read operation: a whole call, or a step of a chat's call.
ReadStep ==
  \/ last' # last /\ last'.op \in {"retrieve", "format", "stats"}
  \/ \E t \in Readers : pc'[t] # pc[t]

\* Two finished calls of the same query and max_results, neither of which
\* failed, hold the same list.
SameResults ==
  \A t, u \in Readers :
    /\ pc[t] = "done" /\ pc[u] = "done"
    /\ loc[t].outcome = loc[u].outcome /\ loc[t].outcome # "error"
    /\ loc[t].k = loc[u].k
    => loc[t].results = loc[u].results

\* C21: every step of retrieve_context, format_context_with_citations and
\* get_database_stats, failing or not, leaves the store's entries, the
\* collection's existence and the objects' collection handles as they were;
\* and retrieve_context calls that run at the same time on a collection that
\* is not written meanwhile, with the same query and max_results and without
\* an encoder failure, return the same list.
ReadsAreReadOnly ==
  /\ [][ReadStep => UNCHANGED <<store, collExists, gen, handle>>]_vars
  /\ []SameResults

\* Two chats hold the same two results; the call of the second reached the
\* store while the first stood between its embedding and its query.
ReadsAreReadOnlyWitness ==
  /\ pc["chat"] = "done" /\ pc["chat2"] = "done"
  /\ loc["chat"].outcome = "results" /\ loc["chat2"].outcome = "results"
  /\ loc["chat"].k = 2 /\ loc["chat2"].k = 2
  /\ Len(loc["chat"].results) = 2
  /\ loc["chat2"].during = "query" /\ loc["chat"].during = "done"
  /\ Cardinality(DOMAIN store) = 3

(***************************************************************************)
(* _chunk_text when the tokenizer raises: the sentence path. A text is the *)
(* list of its sentences as sent_tokenize returns them, each given by its  *)
(* length in characters; a chunk is the list of the sentences it is made   *)
(* of (their positions in the text) and its length in characters.          *)
(***************************************************************************)
\* Most sentences of a text.
MaxSentences == 3

\* Largest max_tokens of a call.
MaxFallbackTokens == 2

\* The lengths of the sentences.
SentenceLens == {1, 3, 4, 5, 9}

\* The running buffer current_chunk: empty at first. lead tells that the
\* string starts with the blank of " " + sentence.
EmptyBuffer == [parts |-> <<>>, len |-> 0, lead |-> FALSE]

\* current_chunk.strip(): the leading blank goes.
Strip(cur) == [parts |-> cur.parts, len |-> cur.len - (IF cur.lead THEN 1 ELSE 0)]

\* A plausible slip: the buffer is emptied at a flush, and the sentence that
\* caused the flush is not put into it.
RECURSIVE FallbackLoopDropping(_, _, _, _, _)
FallbackLoopDropping(sentences, budget, i, chunks, cur) ==
  IF i > Len(sentences)
    THEN IF cur.len > 0 THEN Append(chunks, Strip(cur)) ELSE chunks
    ELSE IF cur.len + sentences[i] > budget
           THEN IF cur.len > 0
                  THEN FallbackLoopDropping(sentences, budget, i + 1,
                                            Append(chunks, Strip(cur)), EmptyBuffer)
                  ELSE FallbackLoopDropping(sentences, budget, i + 1,
                                            Append(chunks, [parts |-> <<i>>, len |-> sentences[i]]),
                                            cur)
           ELSE FallbackLoopDropping(sentences, budget, i + 1, chunks,
                                     [parts |-> Append(cur.parts, i),
                                      len |-> cur.len + 1 + sentences[i],
                                      lead |-> IF cur.len = 0 THEN TRUE ELSE cur.lead])

\* _chunk_text, the loop of the sentence path from sentence i on, and the
\* flush of the buffer after it.
RECURSIVE FallbackLoop(_, _, _, _, _)
FallbackLoop(sentences, budget, i, chunks, cur) ==
  IF i > Len(sentences)
    THEN IF cur.len > 0 THEN Append(chunks, Strip(cur)) ELSE chunks
    ELSE IF cur.len + sentences[i] > budget
           THEN IF cur.len > 0
                  THEN FallbackLoop(sentences, budget, i + 1,
                                    Append(chunks, Strip(cur)),
                                    [parts |-> <<i>>, len |-> sentences[i], lead |-> FALSE])
                  ELSE FallbackLoop(sentences, budget, i + 1,
                                    Append(chunks, [parts |-> <<i>>, len |-> sentences[i]]),
                                    cur)
           ELSE FallbackLoop(sentences, budget, i + 1, chunks,
                             [parts |-> Append(cur.parts, i),
                              len |-> cur.len + 1 + sentences[i],
                              lead |-> IF cur.len = 0 THEN TRUE ELSE cur.lead])

\* _chunk_text, sentence path
ChunkTextFallback(sentences, max_tokens) ==
  FallbackLoop(sentences, max_tokens * TokenChars, 1, <<>>, EmptyBuffer)

\* _chunk_text(text, max_tokens) of a text on which the tokenizer raises
CallChunkTextFallback ==
  /\ \E n \in 0..MaxSentences, max_tokens \in 1..MaxFallbackTokens :
       \E sentences \in [1..n -> SentenceLens] :
         last' = [op |-> "chunk_fallback", sentences |-> sentences,
                  max_tokens |-> max_tokens,
                  chunks |-> ChunkTextFallback(sentences, max_tokens)]
  /\ UNCHANGED <<cfg, resumeFile, down, collExists, store, prev, rebuilt, gen, handle, pc, loc, knowledge, rag_instance, constructed, service>>

SpecFallback == InitChunking /\ [][CallChunkTextFallback]_vars

RECURSIVE Flatten(_)
Flatten(seqs) == IF seqs = <<>> THEN <<>> ELSE Head(seqs) \o Flatten(Tail(seqs))

\* Every sentence of the input is in exactly one returned chunk, in the
\* original order.
SentencesPartitioned ==
  last.op = "chunk_fallback" =>
    Flatten([c \in DOMAIN last.chunks |-> last.chunks[c].parts])
      = [i \in DOMAIN last.sentences |-> i]

\* C23, as stated: (a) every sentence is in exactly one returned chunk, in the
\* original order, and (b) every returned chunk of more than one sentence has
\* at most B = max_tokens * 4 characters.
SentenceFallbackChunking ==
  /\ SentencesPartitioned
  /\ last.op = "chunk_fallback" =>
       \A c \in DOMAIN last.chunks :
         Len(last.chunks[c].parts) > 1 => last.chunks[c].len <= last.max_tokens * TokenChars

\* C23, as the code has it: (a) as stated, and (b) every returned chunk of
\* more than one sentence has at most B + 1 characters, the blank that joins
\* two sentences not being counted by the test of the budget.
SentenceFallbackChunkingAsCoded ==
  /\ SentencesPartitioned
  /\ last.op = "chunk_fallback" =>
       \A c \in DOMAIN last.chunks :
         Len(last.chunks[c].parts) > 1 => last.chunks[c].len <= last.max_tokens * TokenChars + 1

\* A text of three sentences in two chunks, the second of two sentences and
\* of B + 1 characters.
SentenceFallbackChunkingWitness ==
  /\ last.op = "chunk_fallback"
  /\ Len(last.sentences) = 3
  /\ Len(last.chunks) = 2
  /\ last.chunks[2].parts = <<2, 3>>
  /\ last.chunks[2].len = last.max_tokens * TokenChars + 1

(***************************************************************************)
(* What retrieve_context gives back of what _store_documents was given.    *)
(***************************************************************************)
\* The documents process_all_resources() hands to _store_documents, over the
\* resume files there can be.
WrittenDocuments ==
  UNION {Range(CollectDocuments(cfg, f, down)) : f \in ResumeFiles}

\* C24: every document that retrieve_context returns has the id, content,
\* source_type, title and description of the ResourceDocument of that id that
\* _store_documents wrote, whatever keys the document's metadata holds.
StoreRoundTrip ==
  last.op = "retrieve" =>
    \A i \in DOMAIN last.results :
      \A d \in WrittenDocuments :
        d.id = last.results[i].document.id =>
          /\ last.results[i].document.content = d.content
          /\ last.results[i].document.source_type = d.source_type
          /\ last.results[i].document.title = d.title
          /\ last.results[i].document.description = d.description

(***************************************************************************)
(* Configurations that list a repository more than once.                   *)
(***************************************************************************)
\* The github_repos lists: one url twice, with one description or with two,
\* and two urls.
RepeatedRepoLists ==
  { << [url |-> Repo1Url, description |-> "Portfolio site"],
       [url |-> Repo1Url, description |-> "Portfolio site"] >>,
    << [url |-> Repo1Url, description |-> "Portfolio site"],
       [url |-> Repo1Url, description |-> "The same site"] >>,
    << [url |-> Repo1Url, description |-> "Portfolio site"],
       [url |-> "https://github.com/manas/other", description |-> "Another project"] >> }

\* The state after construction, with such a configuration.
InitRepeats ==
  /\ \E extra \in {EmptyDict, [resume |-> ResumeEntry]}, l \in RepeatedRepoLists :
       cfg = [kind |-> "dict",
              yaml |-> [resources |-> Merge(extra, [projects |-> [github_repos |-> l]])]]
  /\ resumeFile \in ResumeFiles
  /\ down \in SUBSET {Repo1Url}
  /\ collExists = TRUE
  /\ store = EmptyStore
  /\ prev = Changed
  /\ rebuilt = "no"
  /\ last = [op |-> "init"]
  /\ gen = 1
  /\ handle = [o \in Objects |-> 1]
  /\ pc = [t \in Threads |-> "idle"]
  /\ loc = [t \in Threads |-> NoLocals]
  /\ knowledge = NoKnowledge
  /\ rag_instance = NoInstance
  /\ constructed = 0
  /\ service = NewService

NextRepeats ==
  \/ ChangeResume
  \/ ChangeWeb
  \/ ProcessAll

SpecRepeats == InitRepeats /\ [][NextRepeats]_vars

\* C25: the ids that process_all_resources() passes to the upsert are pairwise
\* distinct, for a configuration that lists one repository url twice too; a
\* call that collected documents and met no failure of the encoder or of the
\* store returns True.
IdsDistinctInBatch ==
  last.op = "process" =>
    /\ \A i, j \in DOMAIN last.ids : i # j => last.ids[i] # last.ids[j]
    /\ (last.ids # <<>> /\ ~last.faulty) => last.ret

(***************************************************************************)
(* Retrieval from a collection that holds a record the loop of             *)
(* retrieve_context cannot turn into a document: a configuration entry's   *)
(* own created_at key has replaced the timestamp _store_documents writes.  *)
(***************************************************************************)
\* The state after construction, with a resume and a LinkedIn profile
\* configured, the profile with or without such a key.
InitHits ==
  /\ \E p \in {LinkedinEntry,
                <<"linkedin", [url |-> LinkedinUrl, type |-> "social",
                               created_at |-> "last year"]>>} :
       cfg = [kind |-> "dict",
              yaml |-> [resources |-> [resume |-> ResumeEntry, profiles |-> <<p>>]]]
  /\ resumeFile \in ResumeFiles
  /\ down = {}
  /\ collExists = TRUE
  /\ store = EmptyStore
  /\ prev = Changed
  /\ rebuilt = "no"
  /\ last = [op |-> "init"]
  /\ gen = 1
  /\ handle = [o \in Objects |-> 1]
  /\ pc = [t \in Threads |-> "idle"]
  /\ loc = [t \in Threads |-> NoLocals]
  /\ knowledge = NoKnowledge
  /\ rag_instance = NoInstance
  /\ constructed = 0
  /\ service = NewService

NextHits ==
  \/ ChangeResume
  \/ ForceRebuild
  \/ ProcessAll
  \/ Retrieve

SpecHits == InitHits /\ [][NextHits]_vars

\* C26: retrieve_context returns one result for every hit of the store, in
\* the order of the hits, or the empty list; never some of the hits only,
\* also when a hit cannot be turned into a document.
RetrieveAllOrNothing ==
  last.op = "retrieve" =>
    \/ last.results = <<>>
    \/ /\ Len(last.results) = Len(last.hits)
       /\ \A i \in DOMAIN last.hits : last.results[i].document.id = last.hits[i].id

\* The store answered with a readable resume chunk followed by the record
\* with the unparseable created_at, and the call returned the empty list.
RetrieveAllOrNothingWitness ==
  /\ last.op = "retrieve" /\ last.fault = "none"
  /\ Len(last.hits) = 2
  /\ ~Unreadable(last.hits[1]) /\ Unreadable(last.hits[2])
  /\ last.results = <<>>

(***************************************************************************)
(* rag.py: the knowledge base loaded from a text file. A file is the list  *)
(* of its paragraphs (the non-blank pieces between blank lines); a         *)
(* paragraph has a length in characters and the list of its sentences (the *)
(* non-blank pieces between full stops), each with its length.             *)
(***************************************************************************)
\* Longest paragraph that is kept as one chunk.
ParagraphLimit == 200

\* The knowledge files: missing, with a heading only, and three with text. A
\* paragraph of exactly 200 characters and one of 201, and sentences of 20 and
\* of 21 characters, are among them.
KnowledgeFiles ==
  LET Heading == [name |-> "# About", len |-> 7,
                  sentences |-> <<[name |-> "# About", len |-> 7]>>]
      ShortParagraph ==
        [name |-> "Manas builds web applications", len |-> ParagraphLimit,
         sentences |-> <<[name |-> "Manas builds web applications", len |-> ParagraphLimit - 1]>>]
      LongParagraph ==
        [name |-> "long", len |-> ParagraphLimit + 1,
         sentences |-> <<[name |-> "He studied at a university", len |-> MinContentLength + 1],
                         [name |-> "He likes Python a lot", len |-> MinContentLength],
                         [name |-> "His projects use FastAPI and React", len |-> 157]>>]
      OtherParagraph ==
        [name |-> "He writes about machine learning", len |-> 60,
         sentences |-> <<[name |-> "He writes about machine learning", len |-> 59]>>]
  IN  { [exists |-> FALSE, paragraphs |-> <<>>],
        [exists |-> TRUE, paragraphs |-> <<Heading>>],
        [exists |-> TRUE, paragraphs |-> <<Heading, OtherParagraph>>],
        [exists |-> TRUE, paragraphs |-> <<Heading, ShortParagraph, LongParagraph>>],
        [exists |-> TRUE, paragraphs |-> <<LongParagraph, OtherParagraph>>] }

\* load_knowledge_from_file, the chunks it retains: a paragraph of at most
\* 200 characters whole, a longer one sentence by sentence; of these the ones
\* longer than 20 characters.
RetainedChunks(file) ==
  LET whole(p) == <<[name |-> p.name, len |-> p.len]>>
      pieces == Flatten([i \in DOMAIN file.paragraphs |->
                           IF file.paragraphs[i].len <= ParagraphLimit
                             THEN whole(file.paragraphs[i])
                             ELSE file.paragraphs[i].sentences])
      long(s) == s.len > MinContentLength
  IN  SelectSeq(pieces, long)

\* load_knowledge_from_file, the records it hands to collection.add.
KnowledgeRecords(sentences) ==
  [id \in {"sentence_" \o ToString(i - 1) : i \in DOMAIN sentences} |->
     LET i == CHOOSE j \in DOMAIN sentences : id = "sentence_" \o ToString(j - 1)
     IN  [document |-> sentences[i],
          metadata |-> [source |-> "knowledge.txt", sentence_id |-> i - 1]]]

\* RAGSystem.__init__ of rag.py: the collection is fetched, or created when
\* fetching raises. fails: the model or the client cannot be set up, or the
\* creation fails.
LegacyConstruct(kb, number, fails) ==
  IF fails
    THEN [raised |-> TRUE, kb |-> kb, rag |-> NoInstance]
    ELSE [raised |-> FALSE,
          kb |-> IF kb.exists THEN kb ELSE [exists |-> TRUE, docs |-> EmptyStore],
          rag |-> [oid |-> number, attached |-> TRUE]]

\* load_knowledge_from_file. The faults: delete_collection, create_collection,
\* the encoder and collection.add fail; skips tells what the client does with
\* an add of ids the collection has already (they are left as they are, or
\* the add is refused).
LoadKnowledgeFromFile(rag, kb, file, deleteFails, createFails, encodeFails, addFails, skips) ==
  LET sentences == RetainedChunks(file)
      deleted == kb.exists /\ ~deleteFails
      created == deleted /\ ~createFails
      kb1 == IF deleted THEN [exists |-> created, docs |-> EmptyStore] ELSE kb
      rag1 == IF deleted THEN [rag EXCEPT !.attached = created] ELSE rag
      records == KnowledgeRecords(sentences)
      refused == ~skips /\ DOMAIN records \cap DOMAIN kb1.docs # {}
      added == [id \in DOMAIN kb1.docs \cup DOMAIN records |->
                  IF id \in DOMAIN kb1.docs THEN kb1.docs[id] ELSE records[id]]
  IN  IF ~file.exists
        THEN [raised |-> TRUE, kb |-> kb, rag |-> rag, log |-> {}]
        ELSE IF sentences = <<>>
          THEN [raised |-> FALSE, kb |-> kb, rag |-> rag,
                log |-> {Log(WARNING, "No sentences found in knowledge file")}]
          ELSE LET log == IF created THEN {}
                                     ELSE {Log(WARNING, "Could not clear existing collection")}
               IN  IF encodeFails \/ addFails \/ ~kb1.exists \/ ~rag1.attached \/ refused
                     THEN [raised |-> TRUE, kb |-> kb1, rag |-> rag1, log |-> log]
                     ELSE [raised |-> FALSE, kb |-> [kb1 EXCEPT !.docs = added],
                           rag |-> rag1, log |-> log]

\* initialize_knowledge_base(knowledge_file_path): get_rag_system(), then
\* load_knowledge_from_file; True, or False when either raised.
InitializeKnowledgeBase ==
  /\ \E file \in KnowledgeFiles,
        constructFails, deleteFails, createFails, encodeFails, addFails, skips \in BOOLEAN :
       \E got \in {IF rag_instance = NoInstance
                     THEN LegacyConstruct(knowledge, constructed + 1, constructFails)
                     ELSE [raised |-> FALSE, kb |-> knowledge, rag |-> rag_instance]} :
         \E r \in {IF got.raised
                     THEN [raised |-> TRUE, kb |-> got.kb, rag |-> got.rag, log |-> {}]
                     ELSE LoadKnowledgeFromFile(got.rag, got.kb, file, deleteFails,
                                                createFails, encodeFails, addFails, skips)} :
           /\ knowledge' = r.kb
           /\ rag_instance' = r.rag
           /\ constructed' = IF rag_instance = NoInstance /\ ~got.raised THEN constructed + 1
                                                                  ELSE constructed
           /\ last' = [op |-> "initialize_knowledge_base", file |-> file,
                       ret |-> ~r.raised, before |-> knowledge,
                       cleared |-> ~got.raised /\ knowledge.exists /\ ~deleteFails /\ ~createFails,
                       log |-> r.log \cup IF r.raised
                                            THEN {Log(ERROR, "Failed to initialize knowledge base")}
                                            ELSE {}]
  /\ UNCHANGED <<cfg, resumeFile, down, collExists, store, prev, rebuilt, gen, handle, pc, loc,
                 service>>

\* get_collection_info() of the global instance
GetCollectionInfo ==
  /\ rag_instance # NoInstance
  /\ \E countFails \in BOOLEAN :
       last' = [op |-> "get_collection_info",
                info |-> IF countFails \/ ~knowledge.exists \/ ~rag_instance.attached
                           THEN [error |-> "store error"]
                           ELSE [collection_name |-> "portfolio_knowledge",
                                 document_count |-> Cardinality(DOMAIN knowledge.docs),
                                 model_name |-> "all-MiniLM-L6-v2"]]
  /\ UNCHANGED <<cfg, resumeFile, down, collExists, store, prev, rebuilt, gen, handle, pc, loc,
                 knowledge, rag_instance, constructed, service>>

\* The process ends and a new one starts: the module's global is None again.
ProcessRestart ==
  /\ rag_instance # NoInstance
  /\ rag_instance' = NoInstance
  /\ constructed' = 0
  /\ last' = [op |-> "restart"]
  /\ UNCHANGED <<cfg, resumeFile, down, collExists, store, prev, rebuilt, gen, handle, pc, loc,
                 knowledge, service>>

NextKnowledge ==
  \/ InitializeKnowledgeBase
  \/ GetCollectionInfo
  \/ ProcessRestart

\* The module is imported: no instance yet, no collection of its name, and
\* nothing configured for the other modules.
SpecKnowledge == InitChunking /\ [][NextKnowledge]_vars

\* C22: after initialize_knowledge_base(file) has returned True for a file
\* with at least one retained chunk, the collection holds exactly the retained
\* chunks of that file under the ids sentence_0 .. sentence_{n-1}, whatever it
\* held before (so that get_collection_info reports their number, and a second
\* load of the file leaves what the first left).
KnowledgeLoadReplaces ==
  (/\ last.op = "initialize_knowledge_base"
   /\ last.ret
   /\ RetainedChunks(last.file) # <<>>)
  => /\ knowledge.exists
     /\ knowledge.docs = KnowledgeRecords(RetainedChunks(last.file))

\* C27: after initialize_knowledge_base has returned False, and after a load
\* that found no retained chunk, the collection holds exactly the documents it
\* held before the call.
FailedLoadLeavesStoreIntact ==
  (/\ last.op = "initialize_knowledge_base"
   /\ ~last.ret \/ RetainedChunks(last.file) = <<>>)
  => knowledge.docs = last.before.docs

(***************************************************************************)
(* rag.py: get_rag_system() called by threads of one process. The function *)
(* takes no lock; its steps are the test of the global, the construction,  *)
(* the assignment of the global and the read of it for the return.         *)
(***************************************************************************)
\* if _rag_instance is None
GetRagSystemTest(t) ==
  /\ pc[t] = "idle"
  /\ pc' = [pc EXCEPT ![t] = IF rag_instance = NoInstance THEN "construct" ELSE "return"]
  /\ loc' = [loc EXCEPT ![t] = NoLocals]
  /\ UNCHANGED <<cfg, resumeFile, down, collExists, store, prev, rebuilt, last, gen, handle,
                 knowledge, rag_instance, constructed, service>>

\* RAGSystem(): the new object is in the thread's hand, or the exception
\* leaves get_rag_system.
GetRagSystemConstruct(t) ==
  /\ pc[t] = "construct"
  /\ \E fails \in BOOLEAN :
       \E r \in {LegacyConstruct(knowledge, constructed + 1, fails)} :
         /\ knowledge' = r.kb
         /\ constructed' = IF r.raised THEN constructed ELSE constructed + 1
         /\ pc' = [pc EXCEPT ![t] = IF r.raised THEN "done" ELSE "assign"]
         /\ loc' = [loc EXCEPT ![t] = [NoLocals EXCEPT !.rag = r.rag,
                                                       !.outcome = IF r.raised THEN "error"
                                                                               ELSE "none"]]
  /\ UNCHANGED <<cfg, resumeFile, down, collExists, store, prev, rebuilt, last, gen, handle,
                 rag_instance, service>>

\* _rag_instance = <the new object>
GetRagSystemAssign(t) ==
  /\ pc[t] = "assign"
  /\ rag_instance' = loc[t].rag
  /\ pc' = [pc EXCEPT ![t] = "return"]
  /\ UNCHANGED <<cfg, resumeFile, down, collExists, store, prev, rebuilt, last, gen, handle,
                 loc, knowledge, constructed, service>>

\* return _rag_instance
GetRagSystemReturn(t) ==
  /\ pc[t] = "return"
  /\ pc' = [pc EXCEPT ![t] = "done"]
  /\ loc' = [loc EXCEPT ![t] = [NoLocals EXCEPT !.rag = rag_instance, !.outcome = "returned"]]
  /\ UNCHANGED <<cfg, resumeFile, down, collExists, store, prev, rebuilt, last, gen, handle,
                 knowledge, rag_instance, constructed, service>>

\* The caller is done with the call.
GetRagSystemDone(t) ==
  /\ pc[t] = "done"
  /\ pc' = [pc EXCEPT ![t] = "idle"]
  /\ loc' = [loc EXCEPT ![t] = NoLocals]
  /\ UNCHANGED <<cfg, resumeFile, down, collExists, store, prev, rebuilt, last, gen, handle,
                 knowledge, rag_instance, constructed, service>>

NextSingleton ==
  \/ \E t \in Readers : GetRagSystemTest(t)
  \/ \E t \in Readers : GetRagSystemConstruct(t)
  \/ \E t \in Readers : GetRagSystemAssign(t)
  \/ \E t \in Readers : GetRagSystemReturn(t)
  \/ \E t \in Readers : GetRagSystemDone(t)

SpecSingleton == InitChunking /\ [][NextSingleton]_vars

\* The constructor has run to its end at most once, and the calls that have
\* returned hold one object.
OneInstance ==
  /\ constructed <= 1
  /\ \A t, u \in Readers :
       loc[t].outcome = "returned" /\ loc[u].outcome = "returned"
         => loc[t].rag = loc[u].rag

\* C28: under every interleaving of the callers of get_rag_system(), the
\* constructor runs to its end at most once in the process and every call
\* returns the same object; a construction that fails leaves the global as it
\* was, unset, so that a later call constructs again.
SingletonInstance ==
  /\ []OneInstance
  /\ [][\A t \in Readers :
          pc[t] = "construct" /\ pc'[t] = "done" => rag_instance' = rag_instance]_vars

(***************************************************************************)
(* ChatbotService and the chat endpoints. A message is the list of its     *)
(* characters.                                                             *)
(***************************************************************************)
\* Longest message.
MaxMessageLen == 2

\* The providers AIModelService.initialize registers, in its order, when
\* their API keys are set.
ProviderNames == <<"together", "openai">>

Messages == UNION {[1..n -> {" ", "a"}] : n \in 0..MaxMessageLen}

\* str.strip(): the blanks at both ends go.
RECURSIVE StripMessage(_)
StripMessage(m) ==
  IF m = <<>> THEN m
  ELSE IF Head(m) = " " THEN StripMessage(Tail(m))
  ELSE IF m[Len(m)] = " " THEN StripMessage(SubSeq(m, 1, Len(m) - 1))
  ELSE m

\* ChatbotService.get_response on the service svc: RuntimeError before any
\* provider is asked when the service is not initialized; else
\* AIModelService.get_response, a ValueError when the provider is not
\* registered, else the provider's answer or its exception.
GetResponse(svc, model_provider, apiFails) ==
  LET provider_name == IF model_provider # None THEN model_provider ELSE svc.default_provider
  IN  IF ~svc.is_initialized
        THEN [raised |-> "RuntimeError", called |-> {}]
        ELSE IF provider_name \notin svc.providers
          THEN [raised |-> "ValueError", called |-> {}]
          ELSE [raised |-> IF apiFails THEN "Exception" ELSE "no", called |-> {provider_name}]

\* ChatbotService.initialize(): ai_service.initialize() registers the
\* providers with a key one after the other and sets the default provider,
\* resource_manager.load_resources() follows, then is_initialized = True; an
\* exception on the way is raised again. failsAt is the position of the
\* provider whose initialize() raises (0: none does).
ServiceInitialize ==
  /\ \E keys \in SUBSET Range(ProviderNames), failsAt \in 0..Len(ProviderNames),
        loadFails \in BOOLEAN :
       /\ failsAt # 0 => ProviderNames[failsAt] \in keys
       /\ LET registered == {ProviderNames[i] : i \in {j \in DOMAIN ProviderNames :
                               ProviderNames[j] \in keys /\ (failsAt = 0 \/ j < failsAt)}}
              providers == service.providers \cup registered
              first == CHOOSE i \in DOMAIN ProviderNames :
                         /\ ProviderNames[i] \in providers
                         /\ \A j \in DOMAIN ProviderNames :
                              ProviderNames[j] \in providers => i <= j
              done == failsAt = 0 /\ ~loadFails
          IN  /\ service' =
                   [is_initialized |-> IF done THEN TRUE ELSE service.is_initialized,
                    providers |-> providers,
                    default_provider |->
                      IF failsAt # 0 THEN service.default_provider
                      ELSE IF "together" \in providers THEN "together"
                      ELSE IF providers = {} THEN None
                      ELSE ProviderNames[first],
                    resources_config |-> IF done THEN "loaded" ELSE service.resources_config]
              /\ last' = [op |-> "initialize", raised |-> IF done THEN "no" ELSE "Exception",
                          called |-> {},
                          lifecycle |-> IF done THEN "initialized" ELSE "initialize failed"]
  /\ UNCHANGED <<cfg, resumeFile, down, collExists, store, prev, rebuilt, gen, handle, pc, loc,
                 knowledge, rag_instance, constructed>>

\* ChatbotService.get_response(message, model_provider)
ServiceGetResponse ==
  /\ \E model_provider \in {None} \cup Range(ProviderNames), apiFails \in BOOLEAN :
       \E r \in {GetResponse(service, model_provider, apiFails)} :
         last' = [op |-> "get_response", raised |-> r.raised, called |-> r.called,
                  lifecycle |-> last.lifecycle]
  /\ UNCHANGED <<cfg, resumeFile, down, collExists, store, prev, rebuilt, gen, handle, pc, loc,
                 knowledge, rag_instance, constructed, service>>

\* ChatbotService.get_portfolio_summary(): RuntimeError when the service is
\* not initialized; else the default provider's answer, or the fixed sentence
\* when asking it raised.
ServiceGetPortfolioSummary ==
  /\ \E apiFails \in BOOLEAN :
       \E r \in {GetResponse(service, None, apiFails)} :
         last' = [op |-> "get_portfolio_summary",
                  raised |-> IF r.raised = "RuntimeError" THEN r.raised ELSE "no",
                  called |-> r.called, lifecycle |-> last.lifecycle]
  /\ UNCHANGED <<cfg, resumeFile, down, collExists, store, prev, rebuilt, gen, handle, pc, loc,
                 knowledge, rag_instance, constructed, service>>

\* ChatbotService.close(): ai_service.close() closes the providers and
\* forgets them, then is_initialized = False; an exception of a provider's
\* close() leaves the method.
ServiceClose ==
  /\ \E closeFails \in BOOLEAN :
       LET raised == closeFails /\ service.providers # {}
       IN  /\ service' = IF raised THEN service
                                   ELSE [service EXCEPT !.providers = {}, !.is_initialized = FALSE]
           /\ last' = [op |-> "close", raised |-> IF raised THEN "Exception" ELSE "no",
                       called |-> {},
                       lifecycle |-> IF raised THEN "close failed" ELSE "closed"]
  /\ UNCHANGED <<cfg, resumeFile, down, collExists, store, prev, rebuilt, gen, handle, pc, loc,
                 knowledge, rag_instance, constructed>>

\* main.py, chat_endpoint: the test of the message and the call of the
\* chatbot stand in one try block whose except clause answers every
\* exception, the HTTPException of the test too, with status 500.
ChatEndpointMain ==
  /\ \E message \in Messages, chatbotFails \in BOOLEAN :
       LET blank == StripMessage(message) = <<>>
       IN  last' = [op |-> "chat", endpoint |-> "main.py", message |-> message,
                    invoked |-> ~blank, failed |-> ~blank /\ chatbotFails,
                    status |-> IF blank \/ chatbotFails THEN 500 ELSE 200,
                    detail |-> IF blank \/ chatbotFails
                                 THEN "I'm having trouble processing your request. Please try again."
                                 ELSE "",
                    lifecycle |-> last.lifecycle]
  /\ UNCHANGED <<cfg, resumeFile, down, collExists, store, prev, rebuilt, gen, handle, pc, loc,
                 knowledge, rag_instance, constructed, service>>

\* src/portfolio/api/chat.py, chat_endpoint: the request model refuses the
\* empty message (min_length=1) before the handler runs; the handler is that
\* of main.py, with the ChatbotService the application has injected (None
\* when its startup failed).
ChatEndpointRouter ==
  /\ \E message \in Messages, model_provider \in {None} \cup Range(ProviderNames),
        injected, apiFails \in BOOLEAN :
       LET blank == StripMessage(message) = <<>>
           r == IF injected THEN GetResponse(service, model_provider, apiFails)
                            ELSE [raised |-> "AttributeError", called |-> {}]
       IN  last' = [op |-> "chat", endpoint |-> "api/chat.py", message |-> message,
                    invoked |-> message # <<>> /\ ~blank /\ injected,
                    failed |-> message # <<>> /\ ~blank /\ r.raised # "no",
                    status |-> IF message = <<>> THEN 422
                               ELSE IF blank \/ r.raised # "no" THEN 500 ELSE 200,
                    detail |-> IF message = <<>> THEN "validation error"
                               ELSE IF blank \/ r.raised # "no"
                                 THEN "I'm having trouble processing your request. Please try again."
                                 ELSE "",
                    lifecycle |-> last.lifecycle]
  /\ UNCHANGED <<cfg, resumeFile, down, collExists, store, prev, rebuilt, gen, handle, pc, loc,
                 knowledge, rag_instance, constructed, service>>

\* The application has constructed its ChatbotService.
InitService ==
  /\ cfg = [kind |-> "empty", yaml |-> EmptyDict]
  /\ resumeFile \in {f \in ResumeFiles : ~f.exists}
  /\ down = {}
  /\ collExists = TRUE
  /\ store = EmptyStore
  /\ prev = Changed
  /\ rebuilt = "no"
  /\ last = [op |-> "init", lifecycle |-> "new"]
  /\ gen = 1
  /\ handle = [o \in Objects |-> 1]
  /\ pc = [t \in Threads |-> "idle"]
  /\ loc = [t \in Threads |-> NoLocals]
  /\ knowledge = NoKnowledge
  /\ rag_instance = NoInstance
  /\ constructed = 0
  /\ service = NewService

NextService ==
  \/ ServiceInitialize
  \/ ServiceGetResponse
  \/ ServiceGetPortfolioSummary
  \/ ServiceClose
  \/ ChatEndpointMain
  \/ ChatEndpointRouter

SpecService == InitService /\ [][NextService]_vars

\* C29: is_initialized is true exactly when the most recent lifecycle
\* operation was an initialize() that completed both of its steps; and a
\* get_response or get_portfolio_summary made before any initialize(), after
\* an initialize() that failed, or after a close() raises RuntimeError and
\* asks no provider.
ChatbotLifecycle ==
  /\ service.is_initialized <=> last.lifecycle = "initialized"
  /\ (/\ last.op \in {"get_response", "get_portfolio_summary"}
      /\ last.lifecycle # "initialized")
     => last.raised = "RuntimeError" /\ last.called = {}

\* C30: a chat request whose message is empty or blank is answered with
\* status 400 and the detail "Message cannot be empty" without the chatbot
\* being invoked, and status 500 is the answer only to a request whose
\* chatbot call failed.
EmptyMessageRejected ==
  last.op = "chat" =>
    /\ StripMessage(last.message) = <<>> =>
         /\ last.status = 400
         /\ last.detail = "Message cannot be empty"
         /\ ~last.invoked
    /\ last.status = 500 => last.invoked /\ last.failed

====
